---- MODULE Spec2Model ----
(***************************************************************************)
(* Model of the amendment-document parser of src/utils.py:                 *)
(* parse_xml_tags, process_table_cell, parse_amendments, extract_deletions,*)
(* extract_additions and remove_unnec_tags.                                *)
(*                                                                         *)
(* A Python string is a sequence of symbols.  A symbol is one character    *)
(* that a regular expression of the code looks at ("<", ">", "/", "[",     *)
(* "]", ",", " ", "\n", a digit) or a word of letters, which every pattern *)
(* of the code either takes whole or not at all (each literal word in a    *)
(* pattern stands between two delimiters).                                 *)
(***************************************************************************)
EXTENDS Integers, Sequences, FiniteSets, TLC

VARIABLES
    openable,            \* Document(docx_path) can open the file
    doc,                 \* the blocks iter_block_items yields, in order
    pc,                  \* position of parse_amendments
    idx,                 \* number of blocks the walk has consumed
    header_data,         \* list of header paragraph texts
    amendments,          \* dict: amendment number -> accumulator
    order,               \* insertion order of the keys of amendments
    current_amendment,   \* None, or the key whose accumulator it aliases
    collecting_header,
    parsed_header,
    parsed_amendments,   \* dict: amendment number -> amendment_data
    todo,                \* keys the post-pass loop has still to visit
    result,              \* what parse_amendments returned or raised
    call                 \* one call of a pure function: fn, arg, ret

vars == << openable, doc, pc, idx, header_data, amendments, order,
           current_amendment, collecting_header, parsed_header,
           parsed_amendments, todo, result, call >>

parseVars == << openable, doc, pc, idx, header_data, amendments, order,
                current_amendment, collecting_header, parsed_header,
                parsed_amendments, todo, result >>

\* current_amendment = None: no accumulator (amendment numbers are >= 0)
None == -1

-----------------------------------------------------------------------------
(* Strings *)

Digits == {"0", "1", "2", "3", "4", "5", "6", "7", "8", "9"}

\* str.strip() and \s: the whitespace symbols of the model
IsSpace(c) == c \in {" ", "\n"}

Sub(s, a, b) == IF a > b THEN << >> ELSE SubSeq(s, a, b)

StartsWithAt(s, i, pat) ==
    /\ i >= 1
    /\ i + Len(pat) - 1 <= Len(s)
    /\ Sub(s, i, i + Len(pat) - 1) = pat

\* smallest index >= i at which pat starts, 0 when there is none
RECURSIVE Find(_, _, _)
Find(s, pat, i) ==
    IF i + Len(pat) - 1 > Len(s) THEN 0
    ELSE IF StartsWithAt(s, i, pat) THEN i
    ELSE Find(s, pat, i + 1)

RECURSIVE LStrip(_)
LStrip(s) == IF s # << >> /\ IsSpace(Head(s)) THEN LStrip(Tail(s)) ELSE s

RECURSIVE RStrip(_)
RStrip(s) ==
    IF s # << >> /\ IsSpace(s[Len(s)]) THEN RStrip(Sub(s, 1, Len(s) - 1)) ELSE s

\* str.strip()
Strip(s) == RStrip(LStrip(s))

RECURSIVE LStripChars(_, _)
LStripChars(s, cs) ==
    IF s # << >> /\ Head(s) \in cs THEN LStripChars(Tail(s), cs) ELSE s

RECURSIVE RStripChars(_, _)
RStripChars(s, cs) ==
    IF s # << >> /\ s[Len(s)] \in cs
    THEN RStripChars(Sub(s, 1, Len(s) - 1), cs) ELSE s

\* str.strip(chars)
StripChars(s, cs) == RStripChars(LStripChars(s, cs), cs)

\* sep.join(list)
RECURSIVE Join(_, _)
Join(list, sep) ==
    IF list = << >> THEN << >>
    ELSE IF Len(list) = 1 THEN list[1]
    ELSE list[1] \o sep \o Join(Tail(list), sep)

\* str.split(sep) for a one-symbol separator: always at least one piece
RECURSIVE Split(_, _)
Split(s, sep) ==
    LET i == Find(s, << sep >>, 1)
    IN  IF i = 0 THEN << s >>
        ELSE << Sub(s, 1, i - 1) >> \o Split(Sub(s, i + 1, Len(s)), sep)

\* str.replace(old, new): leftmost non-overlapping occurrences, one pass
RECURSIVE Replace(_, _, _)
Replace(s, old, new) ==
    LET i == Find(s, old, 1)
    IN  IF i = 0 THEN s
        ELSE Sub(s, 1, i - 1) \o new
             \o Replace(Sub(s, i + Len(old), Len(s)), old, new)

\* int() of a string of decimal digits
DigitVal(c) ==
    CASE c = "0" -> 0 [] c = "1" -> 1 [] c = "2" -> 2 [] c = "3" -> 3
      [] c = "4" -> 4 [] c = "5" -> 5 [] c = "6" -> 6 [] c = "7" -> 7
      [] c = "8" -> 8 [] c = "9" -> 9

RECURSIVE ToInt(_)
ToInt(s) ==
    IF s = << >> THEN 0
    ELSE 10 * ToInt(Sub(s, 1, Len(s) - 1)) + DigitVal(s[Len(s)])

-----------------------------------------------------------------------------
(* Dictionaries.  A value is a str or a list of str; both carry their     *)
(* strings in val, and kind tells which of the two the value is.          *)

Str(s) == [kind |-> "str", val |-> << s >>]
List(l) == [kind |-> "list", val |-> l]

EmptyDict == [k \in {} |-> Str(<< >>)]

\* d[k] = v
Put(d, k, v) == [x \in DOMAIN d \cup {k} |-> IF x = k THEN v ELSE d[x]]

\* del d[k]
Del(d, k) == [x \in DOMAIN d \ {k} |-> d[x]]

-----------------------------------------------------------------------------
(* parse_xml_tags *)

Tag(name) == << "<", name, ">" >>
EndTag(name) == << "<", "/", name, ">" >>

\* a regular expression that does not match
NoMatch == [found |-> FALSE, start |-> 0, group1 |-> << >>, group2 |-> << >>,
            end |-> 0]

\* as TagMatchAt, with a tag that is never closed running to the end
TagMatchAt_OpenEnded(s, i) ==
    IF i > Len(s) \/ s[i] # "<" THEN NoMatch
    ELSE LET j == Find(s, << ">" >>, i + 1)
         IN  IF j < i + 2 THEN NoMatch
             ELSE LET g == Sub(s, i + 1, j - 1)
                      close == << "<", "/" >> \o g \o << ">" >>
                      k == Find(s, close, j + 1)
                  IN  [found |-> TRUE,
                       start |-> i,
                       group1 |-> g,
                       group2 |-> IF k = 0 THEN Sub(s, j + 1, Len(s))
                                  ELSE Sub(s, j + 1, k - 1),
                       end |-> IF k = 0 THEN Len(s) + 1 ELSE k + Len(close)]

\* The match of <([^>]+)>(.*?)</\1> (DOTALL) that starts at i, or None.
\* [^>]+ is greedy and ">" follows it, so group 1 runs to the first ">";
\* (.*?) is lazy, so group 2 ends at the first "</" group 1 ">" after it;
\* end is the index after the match.
TagMatchAt(s, i) ==
    IF i > Len(s) \/ s[i] # "<" THEN NoMatch
    ELSE LET j == Find(s, << ">" >>, i + 1)
         IN  IF j < i + 2 THEN NoMatch
             ELSE LET g == Sub(s, i + 1, j - 1)
                      close == << "<", "/" >> \o g \o << ">" >>
                      k == Find(s, close, j + 1)
                  IN  IF k = 0 THEN NoMatch
                      ELSE [found |-> TRUE,
                            start |-> i,
                            group1 |-> g,
                            group2 |-> Sub(s, j + 1, k - 1),
                            end |-> k + Len(close)]

\* tag_pattern.finditer(text): the non-overlapping matches, left to right
RECURSIVE FindIter(_, _)
FindIter(s, i) ==
    IF i > Len(s) THEN << >>
    ELSE LET m == TagMatchAt(s, i)
         IN  IF ~m.found THEN FindIter(s, i + 1)
             ELSE << m >> \o FindIter(s, m.end)

\* match.group(1).split(' ')[0].strip('<>')
TagName(group1) == StripChars(Split(group1, " ")[1], {"<", ">"})

\* as AddTag, with a later occurrence replacing the earlier ones
AddTag_Overwrite(tags, m) == Put(tags, TagName(m.group1), Str(Strip(m.group2)))

\* one turn of the loop body of parse_xml_tags
AddTag(tags, m) ==
    LET tag_name == TagName(m.group1)
        content == Strip(m.group2)
    IN  IF tag_name \in DOMAIN tags
        THEN LET old == IF tags[tag_name].kind # "list"
                        THEN List(tags[tag_name].val)
                        ELSE tags[tag_name]
             IN  Put(tags, tag_name, List(Append(old.val, content)))
        ELSE Put(tags, tag_name, Str(content))

RECURSIVE FoldTags(_, _)
FoldTags(tags, ms) ==
    IF ms = << >> THEN tags ELSE FoldTags(AddTag(tags, Head(ms)), Tail(ms))

parse_xml_tags(text) == FoldTags(EmptyDict, FindIter(text, 1))

-----------------------------------------------------------------------------
(* Documents.  A block is a paragraph (its text) or a table (its columns, *)
(* each a list of cells; a cell is the list of the runs of its            *)
(* paragraphs, in order).                                                  *)

Paragraph(text) == [type |-> "paragraph", text |-> text, columns |-> << >>]
Table(columns) == [type |-> "table", text |-> << >>, columns |-> columns]
Run(text, bold, italic) == [text |-> text, bold |-> bold, italic |-> italic]

\* the f-strings of process_table_cell
Del_(text) == << "[", "DEL", "]" >> \o text \o << "[", "/", "DEL", "]" >>
Add_(text) == << "[", "ADD", "]" >> \o text \o << "[", "/", "ADD", "]" >>

\* as FormatRun, with 'bold or italic' in place of 'bold and italic'
FormatRun_Or(run, column_type) ==
    LET text == Strip(run.text)
    IN  IF text = << >> THEN << >>
        ELSE IF run.bold \/ run.italic
             THEN IF column_type = "original" THEN << Del_(text) >>
                  ELSE IF column_type = "amended" THEN << Add_(text) >>
                  ELSE << >>
             ELSE << text >>

\* the loop body of process_table_cell: what one run appends to formatted
FormatRun(run, column_type) ==
    LET text == Strip(run.text)
    IN  IF text = << >> THEN << >>
        ELSE IF run.bold /\ run.italic
             THEN IF column_type = "original" THEN << Del_(text) >>
                  ELSE IF column_type = "amended" THEN << Add_(text) >>
                  ELSE << >>
             ELSE << text >>

RECURSIVE FormatRuns(_, _)
FormatRuns(runs, column_type) ==
    IF runs = << >> THEN << >>
    ELSE FormatRun(Head(runs), column_type)
         \o FormatRuns(Tail(runs), column_type)

\* as process_table_cell, with "".join in place of " ".join
process_table_cell_NoSpace(cell, column_type) ==
    Join(FormatRuns(cell, column_type), << >>)

process_table_cell(cell, column_type) ==
    Join(FormatRuns(cell, column_type), << " " >>)

\* [process_table_cell(c, column_type) for c in cells]
CellTexts(cells, column_type) ==
    [n \in 1..Len(cells) |-> process_table_cell(cells[n], column_type)]

-----------------------------------------------------------------------------
(* parse_amendments: the walk over the blocks *)

Key(name) == << name >>
NL == << "\n" >>

\* the longest run of digits that starts at i, at most n of them
RECURSIVE DigitRun(_, _, _)
DigitRun(s, i, n) ==
    IF n = 0 \/ i > Len(s) \/ s[i] \notin Digits THEN << >>
    ELSE << s[i] >> \o DigitRun(s, i + 1, n - 1)

\* \d{1,4}: at most this many digits
MaxNumAmDigits == 4

\* as NumAmMatchAt, for the pattern <NumAm>(\d+)</NumAm>
NumAmMatchAt_AnyDigits(s, i) ==
    LET d == DigitRun(s, i + 3, Len(s))
    IN  IF /\ StartsWithAt(s, i, Tag("NumAm"))
           /\ d # << >>
           /\ StartsWithAt(s, i + 3 + Len(d), EndTag("NumAm"))
        THEN [found |-> TRUE, start |-> i, group1 |-> d, group2 |-> << >>,
              end |-> i + 3 + Len(d) + 4]
        ELSE NoMatch

\* the match of <NumAm>(\d{1,4})</NumAm> that starts at i
NumAmMatchAt(s, i) ==
    LET d == DigitRun(s, i + 3, MaxNumAmDigits)
    IN  IF /\ StartsWithAt(s, i, Tag("NumAm"))
           /\ d # << >>
           /\ StartsWithAt(s, i + 3 + Len(d), EndTag("NumAm"))
        THEN [found |-> TRUE, start |-> i, group1 |-> d, group2 |-> << >>,
              end |-> i + 3 + Len(d) + 4]
        ELSE NoMatch

\* re.search(r'<NumAm>(\d{1,4})</NumAm>', text): the leftmost match
RECURSIVE NumAmSearch(_, _)
NumAmSearch(s, i) ==
    IF i > Len(s) THEN NoMatch
    ELSE IF NumAmMatchAt(s, i).found THEN NumAmMatchAt(s, i)
    ELSE NumAmSearch(s, i + 1)

\* list.append(text), of header_data and of raw_content
AppendText_Assign(list, text) == << text >>

\* as AppendText, with list.insert(0, text)
AppendText_Prepend(list, text) == << text >> \o list

AppendText(list, text) == Append(list, text)

\* {'raw_content': []}
NewAmendment == Put(EmptyDict, Key("raw_content"), List(<< >>))

\* amendments[amendment_num] = v: a new key goes last, an old one stays put
PutOrder(ord, n) == IF \E i \in 1..Len(ord) : ord[i] = n THEN ord
                    ELSE Append(ord, n)

\* as TableFields, with a table of two rows accepted
TableFields_TwoRows(acc, columns) ==
    IF Len(columns) > 1 /\ Len(columns[1]) > 1
    THEN LET c0 == columns[1]
             c1 == columns[2]
             a1 == Put(acc, Key("OriginalType"),
                       Str(process_table_cell(c0[2], "")))
             a2 == Put(a1, Key("Original"),
                       Str(Join(CellTexts(Sub(c0, 3, Len(c0)), "original"),
                                NL)))
             a3 == Put(a2, Key("AmendedType"),
                       Str(process_table_cell(c1[2], "")))
             a4 == Put(a3, Key("Amended"),
                       Str(Join(CellTexts(Sub(c1, 3, Len(c1)), "amended"),
                                NL)))
         IN  a4
    ELSE acc

\* as TableFields, with the slices cells[1:] in place of cells[2:]
TableFields_FromLabelRow(acc, columns) ==
    IF Len(columns) > 1 /\ Len(columns[1]) > 2
    THEN LET c0 == columns[1]
             c1 == columns[2]
             a1 == Put(acc, Key("OriginalType"),
                       Str(process_table_cell(c0[2], "")))
             a2 == Put(a1, Key("Original"),
                       Str(Join(CellTexts(Sub(c0, 2, Len(c0)), "original"),
                                NL)))
             a3 == Put(a2, Key("AmendedType"),
                       Str(process_table_cell(c1[2], "")))
             a4 == Put(a3, Key("Amended"),
                       Str(Join(CellTexts(Sub(c1, 2, Len(c1)), "amended"),
                                NL)))
         IN  a4
    ELSE acc

\* the four assignments guarded by the shape of the table
TableFields(acc, columns) ==
    IF Len(columns) > 1 /\ Len(columns[1]) > 2
    THEN LET c0 == columns[1]
             c1 == columns[2]
             a1 == Put(acc, Key("OriginalType"),
                       Str(process_table_cell(c0[2], "")))
             a2 == Put(a1, Key("Original"),
                       Str(Join(CellTexts(Sub(c0, 3, Len(c0)), "original"),
                                NL)))
             a3 == Put(a2, Key("AmendedType"),
                       Str(process_table_cell(c1[2], "")))
             a4 == Put(a3, Key("Amended"),
                       Str(Join(CellTexts(Sub(c1, 3, Len(c1)), "amended"),
                                NL)))
         IN  a4
    ELSE acc

\* result: status, the exception's type and argument when one was raised, and
\* the value of the loop variable num when it left the loop over amendments
NoResult == [status |-> "none", exc |-> "", arg |-> << >>, num |-> None]

\* doc = Document(docx_path)
Open ==
    /\ pc = "open"
    /\ openable
    /\ pc' = "walk"
    /\ UNCHANGED << openable, doc, idx, header_data, amendments, order,
                    current_amendment, collecting_header, parsed_header,
                    parsed_amendments, todo, result, call >>

\* Document(docx_path) raises: the file is no readable .docx package
OpenFails ==
    /\ pc = "open"
    /\ ~openable
    /\ pc' = "raised"
    /\ result' = [status |-> "raised", exc |-> "PackageNotFoundError",
                  arg |-> << >>, num |-> None]
    /\ UNCHANGED << openable, doc, idx, header_data, amendments, order,
                    current_amendment, collecting_header, parsed_header,
                    parsed_amendments, todo, call >>

\* as WalkBoundary, with the accumulator of a number seen before kept
WalkBoundary_Keep ==
    /\ pc = "walk"
    /\ idx < Len(doc)
    /\ doc[idx + 1].type = "paragraph"
    /\ LET text == Strip(doc[idx + 1].text)
           amendment_match == NumAmSearch(text, 1)
       IN  /\ amendment_match.found
           /\ LET amendment_num == ToInt(amendment_match.group1)
              IN  /\ collecting_header' = FALSE
                  /\ current_amendment' = amendment_num
                  /\ amendments' =
                         IF amendment_num \in DOMAIN amendments THEN amendments
                         ELSE Put(amendments, amendment_num, NewAmendment)
                  /\ order' = PutOrder(order, amendment_num)
    /\ idx' = idx + 1
    /\ UNCHANGED << openable, doc, pc, header_data, parsed_header,
                    parsed_amendments, todo, result, call >>

\* as WalkBoundary, with current_amendment left on the first amendment
WalkBoundary_StaleCurrent ==
    /\ pc = "walk"
    /\ idx < Len(doc)
    /\ doc[idx + 1].type = "paragraph"
    /\ LET text == Strip(doc[idx + 1].text)
           amendment_match == NumAmSearch(text, 1)
       IN  /\ amendment_match.found
           /\ LET amendment_num == ToInt(amendment_match.group1)
              IN  /\ collecting_header' = FALSE
                  /\ current_amendment' =
                         IF current_amendment = None THEN amendment_num
                         ELSE current_amendment
                  /\ amendments' = Put(amendments, amendment_num, NewAmendment)
                  /\ order' = PutOrder(order, amendment_num)
    /\ idx' = idx + 1
    /\ UNCHANGED << openable, doc, pc, header_data, parsed_header,
                    parsed_amendments, todo, result, call >>

\* as WalkBoundary, with the text of the paragraph kept as the first line of
\* the new amendment
WalkBoundary_KeepText ==
    /\ pc = "walk"
    /\ idx < Len(doc)
    /\ doc[idx + 1].type = "paragraph"
    /\ LET text == Strip(doc[idx + 1].text)
           amendment_match == NumAmSearch(text, 1)
       IN  /\ amendment_match.found
           /\ LET amendment_num == ToInt(amendment_match.group1)
              IN  /\ collecting_header' = FALSE
                  /\ current_amendment' = amendment_num
                  /\ amendments' =
                         Put(amendments, amendment_num,
                             Put(NewAmendment, Key("raw_content"),
                                 List(<< text >>)))
                  /\ order' = PutOrder(order, amendment_num)
    /\ idx' = idx + 1
    /\ UNCHANGED << openable, doc, pc, header_data, parsed_header,
                    parsed_amendments, todo, result, call >>

\* a paragraph whose text holds an amendment number
WalkBoundary ==
    /\ pc = "walk"
    /\ idx < Len(doc)
    /\ doc[idx + 1].type = "paragraph"
    /\ LET text == Strip(doc[idx + 1].text)
           amendment_match == NumAmSearch(text, 1)
       IN  /\ amendment_match.found
           /\ LET amendment_num == ToInt(amendment_match.group1)
              IN  /\ collecting_header' = FALSE
                  /\ current_amendment' = amendment_num
                  /\ amendments' = Put(amendments, amendment_num, NewAmendment)
                  /\ order' = PutOrder(order, amendment_num)
    /\ idx' = idx + 1
    /\ UNCHANGED << openable, doc, pc, header_data, parsed_header,
                    parsed_amendments, todo, result, call >>

\* as WalkParagraph, with the paragraphs of an amendment appended to
\* header_data as well
WalkParagraph_AlwaysHeader ==
    /\ pc = "walk"
    /\ idx < Len(doc)
    /\ doc[idx + 1].type = "paragraph"
    /\ LET text == Strip(doc[idx + 1].text)
       IN  /\ ~NumAmSearch(text, 1).found
           /\ header_data' = AppendText(header_data, text)
           /\ IF ~collecting_header /\ current_amendment # None
              THEN amendments' =
                       Put(amendments, current_amendment,
                           Put(amendments[current_amendment],
                               Key("raw_content"),
                               List(AppendText(
                                        amendments[current_amendment]
                                            [Key("raw_content")].val,
                                        text))))
              ELSE UNCHANGED amendments
    /\ idx' = idx + 1
    /\ UNCHANGED << openable, doc, pc, order, current_amendment,
                    collecting_header, parsed_header, parsed_amendments, todo,
                    result, call >>

\* any other paragraph
WalkParagraph ==
    /\ pc = "walk"
    /\ idx < Len(doc)
    /\ doc[idx + 1].type = "paragraph"
    /\ LET text == Strip(doc[idx + 1].text)
       IN  /\ ~NumAmSearch(text, 1).found
           /\ IF collecting_header
              THEN /\ header_data' = AppendText(header_data, text)
                   /\ UNCHANGED amendments
              ELSE IF current_amendment # None
              THEN /\ amendments' =
                        Put(amendments, current_amendment,
                            Put(amendments[current_amendment],
                                Key("raw_content"),
                                List(AppendText(
                                         amendments[current_amendment]
                                             [Key("raw_content")].val,
                                         text))))
                   /\ UNCHANGED header_data
              ELSE UNCHANGED << header_data, amendments >>
    /\ idx' = idx + 1
    /\ UNCHANGED << openable, doc, pc, order, current_amendment,
                    collecting_header, parsed_header, parsed_amendments, todo,
                    result, call >>

\* as WalkTable, with the text of a table that comes before any amendment
\* collected into header_data
WalkTable_InHeader ==
    /\ pc = "walk"
    /\ idx < Len(doc)
    /\ doc[idx + 1].type = "table"
    /\ IF current_amendment # None
       THEN /\ amendments' =
                   Put(amendments, current_amendment,
                       TableFields(amendments[current_amendment],
                                   doc[idx + 1].columns))
            /\ UNCHANGED header_data
       ELSE /\ UNCHANGED amendments
            /\ header_data' =
                   IF Len(doc[idx + 1].columns) > 0
                   THEN AppendText(header_data,
                                   Join(CellTexts(doc[idx + 1].columns[1], ""),
                                        NL))
                   ELSE header_data
    /\ idx' = idx + 1
    /\ UNCHANGED << openable, doc, pc, order, current_amendment,
                    collecting_header, parsed_header, parsed_amendments, todo,
                    result, call >>

\* as WalkTable, with the fields of the first comparison table of an
\* amendment kept
WalkTable_FirstWins ==
    /\ pc = "walk"
    /\ idx < Len(doc)
    /\ doc[idx + 1].type = "table"
    /\ IF /\ current_amendment # None
          /\ Key("Original") \notin DOMAIN amendments[current_amendment]
       THEN amendments' =
                Put(amendments, current_amendment,
                    TableFields(amendments[current_amendment],
                                doc[idx + 1].columns))
       ELSE UNCHANGED amendments
    /\ idx' = idx + 1
    /\ UNCHANGED << openable, doc, pc, header_data, order, current_amendment,
                    collecting_header, parsed_header, parsed_amendments, todo,
                    result, call >>

\* a table
WalkTable ==
    /\ pc = "walk"
    /\ idx < Len(doc)
    /\ doc[idx + 1].type = "table"
    /\ IF current_amendment # None
       THEN amendments' =
                Put(amendments, current_amendment,
                    TableFields(amendments[current_amendment],
                                doc[idx + 1].columns))
       ELSE UNCHANGED amendments
    /\ idx' = idx + 1
    /\ UNCHANGED << openable, doc, pc, header_data, order, current_amendment,
                    collecting_header, parsed_header, parsed_amendments, todo,
                    result, call >>

\* the walk is over: parse the header and enter the loop over amendments
ProcessHeader ==
    /\ pc = "walk"
    /\ idx = Len(doc)
    /\ parsed_header' = parse_xml_tags(Join(header_data, NL))
    /\ todo' = order
    /\ pc' = "amendments"
    /\ UNCHANGED << openable, doc, idx, header_data, amendments, order,
                    current_amendment, collecting_header, parsed_amendments,
                    result, call >>

-----------------------------------------------------------------------------
(* parse_amendments: the loop over the amendments *)

\* as Overlay, with the value of amendment_data kept for a key of both
Overlay_TagsFirst(amendment_data, data) ==
    [k \in DOMAIN amendment_data \cup DOMAIN data |->
        IF k \in DOMAIN amendment_data THEN amendment_data[k] ELSE data[k]]

\* for k, v in data.items(): amendment_data[k] = v
Overlay(amendment_data, data) ==
    [k \in DOMAIN amendment_data \cup DOMAIN data |->
        IF k \in DOMAIN data THEN data[k] ELSE amendment_data[k]]

\* '\n'.join(data['raw_content'])
FullContent(data) == Join(data[Key("raw_content")].val, NL)

\* amendment_data when the loop body reaches amendment_data['RepeatBlock-By']
BaseData_RawList(data) == Overlay(parse_xml_tags(FullContent(data)), data)

BaseData(data) ==
    Put(Overlay(parse_xml_tags(FullContent(data)), data),
        Key("raw_content"), Str(FullContent(data)))

\* as MembersList, without name.strip()
MembersList_NoStrip(members_str) ==
    Split(Replace(Replace(members_str, Tag("Members"), << >>),
                  EndTag("Members"), << >>), ",")

\* the list comprehension over members_str
MembersList(members_str) ==
    LET names == Split(Replace(Replace(members_str, Tag("Members"), << >>),
                               EndTag("Members"), << >>), ",")
    IN  [n \in 1..Len(names) |-> Strip(names[n])]

JustMarker == Tag("TitreJust") \o << "Justification" >> \o EndTag("TitreJust")

\* as JustEnd, for (.*)$: the group runs to the end of the string
JustEnd_ToEnd(s, i) == Len(s) + 1

\* where (.*?)(<|$) stops when it starts at i: at the first "<", at the end
\* of the string, or before a newline that ends the string
RECURSIVE JustEnd(_, _)
JustEnd(s, i) ==
    IF i > Len(s) THEN i
    ELSE IF s[i] = "<" THEN i
    ELSE IF i = Len(s) /\ s[i] = "\n" THEN i
    ELSE JustEnd(s, i + 1)

\* re.search(r'<TitreJust>Justification</TitreJust>(.*?)(<|$)', s, re.DOTALL)
JustSearch(s) ==
    LET i == Find(s, JustMarker, 1)
    IN  IF i = 0 THEN NoMatch
        ELSE [found |-> TRUE, start |-> i,
              group1 |-> Sub(s, i + Len(JustMarker),
                             JustEnd(s, i + Len(JustMarker)) - 1),
              group2 |-> << >>,
              end |-> JustEnd(s, i + Len(JustMarker))]

\* the if block that adds Justification
WithJustification(amendment_data) ==
    IF Key("raw_content") \in DOMAIN amendment_data
    THEN LET justification_match ==
                 JustSearch(amendment_data[Key("raw_content")].val[1])
         IN  IF justification_match.found
             THEN Put(amendment_data, Key("Justification"),
                      Str(Strip(justification_match.group1)))
             ELSE amendment_data
    ELSE amendment_data

\* the loop body from members_str on, when nothing raises
Finish(amendment_data) ==
    LET members_str == amendment_data[Key("RepeatBlock-By")].val[1]
        withBy == Put(amendment_data, Key("By"),
                      List(MembersList(members_str)))
    IN  WithJustification(Del(withBy, Key("RepeatBlock-By")))

\* one turn of the loop that raises nothing
ProcessAmendment ==
    /\ pc = "amendments"
    /\ todo # << >>
    /\ LET num == Head(todo)
           amendment_data == BaseData(amendments[num])
       IN  /\ Key("RepeatBlock-By") \in DOMAIN amendment_data
           /\ amendment_data[Key("RepeatBlock-By")].kind = "str"
           /\ parsed_amendments' =
                  Put(parsed_amendments, num, Finish(amendment_data))
    /\ todo' = Tail(todo)
    /\ UNCHANGED << openable, doc, pc, idx, header_data, amendments, order,
                    current_amendment, collecting_header, parsed_header,
                    result, call >>

\* amendment_data['RepeatBlock-By'] raises KeyError
RaiseKeyError ==
    /\ pc = "amendments"
    /\ todo # << >>
    /\ Key("RepeatBlock-By") \notin DOMAIN BaseData(amendments[Head(todo)])
    /\ pc' = "raised"
    /\ result' = [status |-> "raised", exc |-> "KeyError",
                  arg |-> Key("RepeatBlock-By"), num |-> Head(todo)]
    /\ UNCHANGED << openable, doc, idx, header_data, amendments, order,
                    current_amendment, collecting_header, parsed_header,
                    parsed_amendments, todo, call >>

\* members_str is a list: members_str.replace raises AttributeError
RaiseAttributeError ==
    /\ pc = "amendments"
    /\ todo # << >>
    /\ LET amendment_data == BaseData(amendments[Head(todo)])
       IN  /\ Key("RepeatBlock-By") \in DOMAIN amendment_data
           /\ amendment_data[Key("RepeatBlock-By")].kind = "list"
    /\ pc' = "raised"
    /\ result' = [status |-> "raised", exc |-> "AttributeError",
                  arg |-> << "'list' object has no attribute 'replace'" >>,
                  num |-> Head(todo)]
    /\ UNCHANGED << openable, doc, idx, header_data, amendments, order,
                    current_amendment, collecting_header, parsed_header,
                    parsed_amendments, todo, call >>

\* return {'header': parsed_header, 'amendments': parsed_amendments}
Return ==
    /\ pc = "amendments"
    /\ todo = << >>
    /\ pc' = "returned"
    /\ result' = [status |-> "returned", exc |-> "", arg |-> << >>,
                  num |-> None]
    /\ UNCHANGED << openable, doc, idx, header_data, amendments, order,
                    current_amendment, collecting_header, parsed_header,
                    parsed_amendments, todo, call >>

Next ==
    \/ Open
    \/ OpenFails
    \/ WalkBoundary
    \/ WalkParagraph
    \/ WalkTable
    \/ ProcessHeader
    \/ ProcessAmendment
    \/ RaiseKeyError
    \/ RaiseAttributeError
    \/ Return

-----------------------------------------------------------------------------
(* extract_deletions, extract_additions, remove_unnec_tags *)

OpenSpan(kind) == << "[", kind, "]" >>
CloseSpan(kind) == << "[", "/", kind, "]" >>

\* where (.*?) followed by the closing tag stops when it starts at i: the
\* first closing tag, unless a newline comes first ("." takes no newline);
\* 0 when there is no match
RECURSIVE SpanEnd(_, _, _)
SpanEnd(s, kind, i) ==
    IF StartsWithAt(s, i, CloseSpan(kind)) THEN i
    ELSE IF i > Len(s) \/ s[i] = "\n" THEN 0
    ELSE SpanEnd(s, kind, i + 1)

\* re.findall(r'\[KIND\](.*?)\[\/KIND\]', text) from index i on
RECURSIVE FindAllSpans(_, _, _)
FindAllSpans(s, kind, i) ==
    IF i > Len(s) THEN << >>
    ELSE IF StartsWithAt(s, i, OpenSpan(kind)) /\ SpanEnd(s, kind, i + 3) # 0
    THEN << Sub(s, i + 3, SpanEnd(s, kind, i + 3) - 1) >>
         \o FindAllSpans(s, kind, SpanEnd(s, kind, i + 3) + 4)
    ELSE FindAllSpans(s, kind, i + 1)

Bar == << " ", "|", " " >>

\* where a greedy (.*) followed by the closing tag stops: the last closing
\* tag before the next newline
RECURSIVE GreedySpanEnd(_, _, _, _)
GreedySpanEnd(s, kind, i, best) ==
    IF i > Len(s) THEN best
    ELSE IF StartsWithAt(s, i, CloseSpan(kind))
    THEN GreedySpanEnd(s, kind, i + 1, i)
    ELSE IF s[i] = "\n" THEN best
    ELSE GreedySpanEnd(s, kind, i + 1, best)

RECURSIVE FindAllGreedy(_, _, _)
FindAllGreedy(s, kind, i) ==
    IF i > Len(s) THEN << >>
    ELSE IF /\ StartsWithAt(s, i, OpenSpan(kind))
            /\ GreedySpanEnd(s, kind, i + 3, 0) # 0
    THEN << Sub(s, i + 3, GreedySpanEnd(s, kind, i + 3, 0) - 1) >>
         \o FindAllGreedy(s, kind, GreedySpanEnd(s, kind, i + 3, 0) + 4)
    ELSE FindAllGreedy(s, kind, i + 1)

\* as extract_deletions, with (.*) in place of (.*?)
extract_deletions_Greedy(text) == Join(FindAllGreedy(text, "DEL", 1), Bar)

extract_deletions(text) == Join(FindAllSpans(text, "DEL", 1), Bar)

extract_additions(text) == Join(FindAllSpans(text, "ADD", 1), Bar)

\* the index after the whitespace that starts at i
RECURSIVE SkipSpace(_, _)
SkipSpace(s, i) ==
    IF i <= Len(s) /\ IsSpace(s[i]) THEN SkipSpace(s, i + 1) ELSE i

\* the index after the match of \[/KIND\]\s+\[KIND\] that starts at i, or 0
CollapseMatchEnd(s, kind, i) ==
    IF /\ StartsWithAt(s, i, CloseSpan(kind))
       /\ SkipSpace(s, i + 4) > i + 4
       /\ StartsWithAt(s, SkipSpace(s, i + 4), OpenSpan(kind))
    THEN SkipSpace(s, i + 4) + 3
    ELSE 0

\* re.sub(r'\[/KIND\]\s+\[KIND\]', '', text) from index i on
RECURSIVE SubCollapse(_, _, _)
SubCollapse(s, kind, i) ==
    IF i > Len(s) THEN << >>
    ELSE IF CollapseMatchEnd(s, kind, i) # 0
    THEN SubCollapse(s, kind, CollapseMatchEnd(s, kind, i))
    ELSE << s[i] >> \o SubCollapse(s, kind, i + 1)

\* re.sub(..., count=1): only the leftmost match is removed
RECURSIVE SubCollapseOnce(_, _, _)
SubCollapseOnce(s, kind, i) ==
    IF i > Len(s) THEN << >>
    ELSE IF CollapseMatchEnd(s, kind, i) # 0
    THEN Sub(s, CollapseMatchEnd(s, kind, i), Len(s))
    ELSE << s[i] >> \o SubCollapseOnce(s, kind, i + 1)

remove_unnec_tags_Once(text) ==
    SubCollapseOnce(SubCollapseOnce(text, "DEL", 1), "ADD", 1)

remove_unnec_tags(text) ==
    SubCollapse(SubCollapse(text, "DEL", 1), "ADD", 1)

-----------------------------------------------------------------------------
(* The documents of the model *)

\* the longest document
MaxBlocks == 5

P_Committee == Paragraph(<< "Committee:", " ", "AGRI" >>)
P_NumAm12 == Paragraph(Tag("NumAm") \o << "1", "2" >> \o EndTag("NumAm"))
P_NumAm7 == Paragraph(<< " " >> \o Tag("NumAm") \o << "7" >>
                      \o EndTag("NumAm"))
P_Article == Paragraph(Tag("Article") \o << "Article", " ", "4" >>
                       \o EndTag("Article"))
P_By == Paragraph(Tag("RepeatBlock-By") \o Tag("Members")
                  \o << "A.", " ", "One", ",", " ", "B.", " ", "Two" >>
                  \o EndTag("Members") \o EndTag("RepeatBlock-By"))

EmptyCell == << >>
LabelCell == << Run(<< "Regulation", " ", "text" >>, FALSE, FALSE) >>

\* column 0 = ['', 'Regulation text', 'old words'], 'old' bold and italic;
\* column 1 = ['', 'Regulation text', 'new words'], 'new' bold and italic
T_Compare ==
    Table(<< << EmptyCell, LabelCell,
                << Run(<< "old" >>, TRUE, TRUE),
                   Run(<< " ", "words" >>, FALSE, FALSE) >> >>,
             << EmptyCell, LabelCell,
                << Run(<< "new" >>, TRUE, TRUE),
                   Run(<< " ", "words" >>, FALSE, FALSE) >> >> >>)

\* four rows; neighbouring runs that are both bold and italic
T_Adjacent ==
    Table(<< << EmptyCell, LabelCell,
                << Run(<< "a" >>, TRUE, TRUE), Run(<< "b", " " >>, TRUE, TRUE),
                   Run(<< "c" >>, TRUE, FALSE) >>,
                << Run(<< "d" >>, TRUE, TRUE) >> >>,
             << EmptyCell, LabelCell,
                << Run(<< "a" >>, FALSE, TRUE), Run(<< "e" >>, TRUE, TRUE),
                   Run(<< " " >>, TRUE, TRUE), Run(<< "f" >>, TRUE, TRUE) >>,
                << Run(<< "g" >>, TRUE, TRUE) >> >> >>)

\* two columns of two rows: too short to be a comparison table
T_Short ==
    Table(<< << EmptyCell, LabelCell >>, << EmptyCell, LabelCell >> >>)

\* one column of three rows
T_OneColumn ==
    Table(<< << EmptyCell, LabelCell, << Run(<< "old" >>, TRUE, TRUE) >> >> >>)

\* labels that differ by column, the first with a bold and italic run;
\* column 0 = ['', 'Regulation text', 'p'], column 1 = ['', 'Amendment', 'q']
T_Labels ==
    Table(<< << EmptyCell,
                << Run(<< "Regulation" >>, TRUE, TRUE),
                   Run(<< " ", "text" >>, FALSE, FALSE) >>,
                << Run(<< "p" >>, FALSE, FALSE) >> >>,
             << EmptyCell,
                << Run(<< "Amendment", " " >>, FALSE, TRUE) >>,
                << Run(<< "q" >>, TRUE, TRUE) >> >> >>)

Blocks == { P_Committee, P_NumAm12, P_NumAm7, P_Article, P_By, T_Compare }

Docs == UNION { [1..n -> Blocks] : n \in 0..MaxBlocks }

\* call: the function, where its argument came from, the argument, the
\* result of the first call and the result of the latest call
NoCall == [fn |-> "none", src |-> "text", arg |-> << >>, once |-> << >>,
           ret |-> << >>]

InitParse ==
    /\ pc = "open"
    /\ idx = 0
    /\ header_data = << >>
    /\ amendments = EmptyDict
    /\ order = << >>
    /\ current_amendment = None
    /\ collecting_header = TRUE
    /\ parsed_header = EmptyDict
    /\ parsed_amendments = EmptyDict
    /\ todo = << >>
    /\ result = NoResult
    /\ call = NoCall

Init ==
    /\ \/ openable = TRUE /\ doc \in Docs
       \/ openable = FALSE /\ doc = << >>
    /\ InitParse

Spec == Init /\ [][Next]_vars

\* documents with more kinds of tables and fewer kinds of paragraphs
TableBlocks == { P_NumAm12, P_By, T_Compare, T_Adjacent, T_Short, T_OneColumn }

TableDocs == UNION { [1..n -> TableBlocks] : n \in 0..MaxBlocks }

InitTables ==
    /\ \/ openable = TRUE /\ doc \in TableDocs
       \/ openable = FALSE /\ doc = << >>
    /\ InitParse

SpecTables == InitTables /\ [][Next]_vars

\* paragraphs whose tags are named like the keys the walk and the loop over
\* the amendments set
P_TableTags ==
    Paragraph(Tag("Original") \o << "t" >> \o EndTag("Original")
              \o Tag("raw_content") \o << "r" >> \o EndTag("raw_content"))
P_PostTags ==
    Paragraph(Tag("By") \o << "b" >> \o EndTag("By")
              \o Tag("Justification") \o << "j" >> \o EndTag("Justification")
              \o Tag("Article") \o << "4" >> \o EndTag("Article"))
P_Just ==
    Paragraph(Tag("TitreJust") \o << "Justification" >> \o EndTag("TitreJust")
              \o << " ", "why", " " >>)

OverlayBlocks == { P_NumAm12, P_By, T_Compare, P_TableTags, P_PostTags, P_Just }

OverlayDocs == UNION { [1..n -> OverlayBlocks] : n \in 0..MaxBlocks }

InitOverlay ==
    /\ \/ openable = TRUE /\ doc \in OverlayDocs
       \/ openable = FALSE /\ doc = << >>
    /\ InitParse

SpecOverlay == InitOverlay /\ [][Next]_vars

\* documents with justifications
JustBlocks == { P_NumAm12, P_By, T_Short, P_Just, P_Committee, P_PostTags }

JustDocs == UNION { [1..n -> JustBlocks] : n \in 0..MaxBlocks }

InitJust ==
    /\ \/ openable = TRUE /\ doc \in JustDocs
       \/ openable = FALSE /\ doc = << >>
    /\ InitParse

SpecJust == InitJust /\ [][Next]_vars

\* documents whose comparison tables differ in every field
LabelBlocks == { P_NumAm12, P_Article, P_By, T_Compare, T_Labels, T_Short }

LabelDocs == UNION { [1..n -> LabelBlocks] : n \in 0..MaxBlocks }

InitLabels ==
    /\ \/ openable = TRUE /\ doc \in LabelDocs
       \/ openable = FALSE /\ doc = << >>
    /\ InitParse

SpecLabels == InitLabels /\ [][Next]_vars

-----------------------------------------------------------------------------
(* The end-to-end scenario *)

E2EDoc == << P_Committee, P_NumAm12, P_Article, T_Compare, P_By >>

E2ERecord ==
    [k \in { Key("Article"), Key("OriginalType"), Key("Original"),
             Key("AmendedType"), Key("Amended"), Key("By"),
             Key("raw_content") } |->
        CASE k = Key("Article") -> Str(<< "Article", " ", "4" >>)
          [] k = Key("OriginalType") -> Str(<< "Regulation", " ", "text" >>)
          [] k = Key("Original") ->
                 Str(<< "[", "DEL", "]", "old", "[", "/", "DEL", "]", " ",
                        "words" >>)
          [] k = Key("AmendedType") -> Str(<< "Regulation", " ", "text" >>)
          [] k = Key("Amended") ->
                 Str(<< "[", "ADD", "]", "new", "[", "/", "ADD", "]", " ",
                        "words" >>)
          [] k = Key("By") ->
                 List(<< << "A.", " ", "One" >>, << "B.", " ", "Two" >> >>)
          [] k = Key("raw_content") ->
                 Str(<< "<", "Article", ">", "Article", " ", "4",
                        "<", "/", "Article", ">", "\n",
                        "<", "RepeatBlock-By", ">", "<", "Members", ">",
                        "A.", " ", "One", ",", " ", "B.", " ", "Two",
                        "<", "/", "Members", ">",
                        "<", "/", "RepeatBlock-By", ">" >>)]

\* C1: the end-to-end document parses, and amendments[12] is exactly the
\* record with Article, OriginalType, Original, AmendedType, Amended, By and
\* raw_content of the scenario; extract_deletions(Original) is 'old' and
\* extract_additions(Amended) is 'new'.
C1_EndToEnd ==
    doc = E2EDoc =>
        /\ pc # "raised"
        /\ pc = "returned" =>
              /\ DOMAIN parsed_amendments = {12}
              /\ parsed_amendments[12] = E2ERecord
              /\ extract_deletions(parsed_amendments[12][Key("Original")].val[1])
                     = << "old" >>
              /\ extract_additions(parsed_amendments[12][Key("Amended")].val[1])
                     = << "new" >>

C1_Witness == doc = E2EDoc /\ pc = "returned"

-----------------------------------------------------------------------------
(* What a document is made of, read off the document itself *)

\* text holds <NumAm>, one to four digits, </NumAm>
HasNumAm(text) ==
    \E i \in 1..Len(text) : \E n \in 1..MaxNumAmDigits :
        /\ StartsWithAt(text, i, Tag("NumAm"))
        /\ i + 2 + n <= Len(text)
        /\ \A k \in (i + 3)..(i + 2 + n) : text[k] \in Digits
        /\ StartsWithAt(text, i + 3 + n, EndTag("NumAm"))

IsBoundary(block) == block.type = "paragraph" /\ HasNumAm(block.text)

NoBoundary(blocks) == \A i \in 1..Len(blocks) : ~IsBoundary(blocks[i])

\* the trimmed texts of the paragraphs of blocks, in order
RECURSIVE ParagraphTexts(_)
ParagraphTexts(blocks) ==
    IF blocks = << >> THEN << >>
    ELSE IF Head(blocks).type = "paragraph"
    THEN << Strip(Head(blocks).text) >> \o ParagraphTexts(Tail(blocks))
    ELSE ParagraphTexts(Tail(blocks))

\* the blocks before the first boundary at or after index i
RECURSIVE UpToBoundary(_, _)
UpToBoundary(blocks, i) ==
    IF i > Len(blocks) \/ IsBoundary(blocks[i]) THEN << >>
    ELSE << blocks[i] >> \o UpToBoundary(blocks, i + 1)

\* the region a boundary at index i opens: the newline-joined paragraphs
\* between it and the next boundary
RegionText(blocks, i) == Join(ParagraphTexts(UpToBoundary(blocks, i + 1)), NL)

Boundaries(blocks) == { i \in 1..Len(blocks) : IsBoundary(blocks[i]) }

\* text holds <name>, and </name> somewhere after it
HasPair(text, name) ==
    \E i \in 1..Len(text) : \E k \in (i + 3)..Len(text) :
        /\ StartsWithAt(text, i, Tag(name))
        /\ StartsWithAt(text, k, EndTag(name))

\* s holds the decimal digits of n
Identifies(s, n) ==
    \E i \in 1..Len(s) : \E j \in i..Len(s) :
        /\ \A k \in i..j : s[k] \in Digits
        /\ ToInt(Sub(s, i, j)) = n

Finished == pc \in {"returned", "raised"}

-----------------------------------------------------------------------------
(* Documents without amendments *)

\* C2: a document with no <NumAm> boundary parses without an error; its
\* amendments mapping is empty and its header is the Tag Map of the
\* newline-joined trimmed texts of all its paragraphs (tables add nothing).
C2_NoBoundaryHeaderOnly ==
    (openable /\ NoBoundary(doc)) =>
        /\ pc # "raised"
        /\ pc = "returned" =>
              /\ parsed_amendments = EmptyDict
              /\ parsed_header = parse_xml_tags(Join(ParagraphTexts(doc), NL))

\* two paragraphs and a table, no boundary, and a tag in the header
C2_Witness ==
    /\ pc = "returned"
    /\ NoBoundary(doc)
    /\ Len(ParagraphTexts(doc)) >= 2
    /\ \E i \in 1..Len(doc) : doc[i].type = "table"
    /\ Key("Article") \in DOMAIN parsed_header

-----------------------------------------------------------------------------
(* The author block *)

\* the boundaries whose region yields no RepeatBlock-By tag
MissingBy ==
    { i \in Boundaries(doc) :
          Key("RepeatBlock-By") \notin DOMAIN parse_xml_tags(RegionText(doc, i)) }

BoundaryNum(i) == ToInt(NumAmSearch(Strip(doc[i].text), 1).group1)

\* C3: when the region of some amendment yields no RepeatBlock-By tag, the
\* parse ends in an error that identifies the number of such an amendment,
\* and returns no result.
C3_MissingByIdentified ==
    (Finished /\ openable /\ MissingBy # {}) =>
        /\ pc = "raised"
        /\ \E i \in MissingBy : Identifies(result.arg, BoundaryNum(i))

\* C4: a document that can be opened and whose every amendment region holds
\* a matched <RepeatBlock-By>...</RepeatBlock-By> pair is parsed to a
\* result; no error is raised.
C4_OnlyTwoFailures ==
    (/\ openable
     /\ \A i \in Boundaries(doc) : HasPair(RegionText(doc, i), "RepeatBlock-By"))
        => pc # "raised"

\* C5: every amendment record of a returned result has By, a list, and
\* raw_content, a str, and has no RepeatBlock-By key.
C5_RecordShape ==
    pc = "returned" =>
        \A n \in DOMAIN parsed_amendments :
            /\ Key("By") \in DOMAIN parsed_amendments[n]
            /\ parsed_amendments[n][Key("By")].kind = "list"
            /\ Key("raw_content") \in DOMAIN parsed_amendments[n]
            /\ parsed_amendments[n][Key("raw_content")].kind = "str"
            /\ Len(parsed_amendments[n][Key("raw_content")].val) = 1
            /\ Key("RepeatBlock-By") \notin DOMAIN parsed_amendments[n]

\* two records, one of them with table fields
C5_Witness ==
    /\ pc = "returned"
    /\ Cardinality(DOMAIN parsed_amendments) = 2
    /\ \E n \in DOMAIN parsed_amendments :
           Key("Original") \in DOMAIN parsed_amendments[n]

-----------------------------------------------------------------------------
(* Calls of parse_xml_tags on texts put together from a few pieces *)

\* the most pieces in a text
MaxPieces == 6

RECURSIVE Flatten(_)
Flatten(pieces) ==
    IF pieces = << >> THEN << >> ELSE Head(pieces) \o Flatten(Tail(pieces))

TextsOf(pieces, n) == { Flatten(p) : p \in UNION { [1..m -> pieces] : m \in 0..n } }

TagPieces == { Tag("X"), EndTag("X"), Tag("Y"), EndTag("Y"), << "v" >>,
               << " ", "w" >> }

\* the parser is idle while a pure function is called
IdleParse ==
    /\ openable = TRUE
    /\ doc = << >>
    /\ pc = "idle"
    /\ idx = 0
    /\ header_data = << >>
    /\ amendments = EmptyDict
    /\ order = << >>
    /\ current_amendment = None
    /\ collecting_header = TRUE
    /\ parsed_header = EmptyDict
    /\ parsed_amendments = EmptyDict
    /\ todo = << >>
    /\ result = NoResult

InitTags ==
    /\ IdleParse
    /\ \E text \in TextsOf(TagPieces, MaxPieces) :
           call = [fn |-> "none", src |-> "text", arg |-> text,
                   once |-> EmptyDict, ret |-> EmptyDict]

CallParseXmlTags ==
    /\ pc = "idle"
    /\ call.fn = "none"
    /\ call' = [call EXCEPT !.fn = "parse_xml_tags",
                             !.once = parse_xml_tags(call.arg),
                             !.ret = parse_xml_tags(call.arg)]
    /\ UNCHANGED parseVars

NextTags == CallParseXmlTags

SpecTags == InitTags /\ [][NextTags]_vars

\* the trimmed contents of the matches in ms whose tag name is name
RECURSIVE ContentsOf(_, _)
ContentsOf(ms, name) ==
    IF ms = << >> THEN << >>
    ELSE IF TagName(Head(ms).group1) = name
    THEN << Strip(Head(ms).group2) >> \o ContentsOf(Tail(ms), name)
    ELSE ContentsOf(Tail(ms), name)

MatchedNames(ms) == { TagName(ms[i].group1) : i \in 1..Len(ms) }

\* C6: a tag name matched once maps to its trimmed content, a str; a tag
\* name matched k >= 2 times maps to the list of its k trimmed contents in
\* the order of the matches; no other key is in the map.
C6_ScalarListPromotion ==
    call.fn = "parse_xml_tags" =>
        LET ms == FindIter(call.arg, 1)
        IN  /\ DOMAIN call.ret = MatchedNames(ms)
            /\ \A name \in MatchedNames(ms) :
                   LET cs == ContentsOf(ms, name)
                   IN  IF Len(cs) = 1 THEN call.ret[name] = Str(cs[1])
                       ELSE call.ret[name] = List(cs)

\* <X>v</X><X> w</X> gives {X: [v, w]}
C6_Witness ==
    /\ call.fn = "parse_xml_tags"
    /\ call.arg = Tag("X") \o << "v" >> \o EndTag("X")
                  \o Tag("X") \o << " ", "w" >> \o EndTag("X")
    /\ call.ret = Put(EmptyDict, Key("X"), List(<< << "v" >>, << "w" >> >>))

\* text holds an opening tag whose name is key and, after it, the closing
\* tag of the same token
HasMatchedPair(text, key) ==
    \E i \in 1..Len(text) : \E j \in (i + 2)..Len(text) :
        /\ text[i] = "<"
        /\ text[j] = ">"
        /\ \A k \in (i + 1)..(j - 1) : text[k] # ">"
        /\ TagName(Sub(text, i + 1, j - 1)) = key
        /\ Find(text, << "<", "/" >> \o Sub(text, i + 1, j - 1) \o << ">" >>,
                j + 1) # 0

\* C10: parse_xml_tags returns a map for every text, and every key of the
\* map comes from an opening tag that has its closing tag after it: a tag
\* without its partner adds no key.
C10_OnlyMatchedPairs ==
    call.fn = "parse_xml_tags" =>
        \A key \in DOMAIN call.ret :
            /\ HasMatchedPair(call.arg, key)
            /\ call.ret[key].kind \in {"str", "list"}

\* an opening tag without closing tag and a closing tag without opening tag
\* next to a matched pair
C10_Witness ==
    /\ call.fn = "parse_xml_tags"
    /\ call.arg = Tag("Y") \o Tag("X") \o << "v" >> \o EndTag("X")
                  \o Tag("Y") \o EndTag("X")
    /\ DOMAIN call.ret = { Key("X") }

-----------------------------------------------------------------------------
(* Calls of remove_unnec_tags: on texts put together from pieces, and on   *)
(* the texts parse_amendments makes of the cells of a table column         *)

\* the most runs in a cell
MaxRuns == 3

DiffPieces == { OpenSpan("DEL"), CloseSpan("DEL"), OpenSpan("ADD"),
                CloseSpan("ADD"), << " " >>, << "x" >> }

SomeRuns == { Run(<< "a" >>, TRUE, TRUE), Run(<< "b", " " >>, FALSE, TRUE),
              Run(<< " " >>, TRUE, TRUE) }

SomeCells == UNION { [1..n -> SomeRuns] : n \in 0..MaxRuns }

\* the cells of rows 2..N of a column: one or two of them
SomeColumns == UNION { [1..n -> SomeCells] : n \in {1, 2} }

InitCollapse ==
    /\ IdleParse
    /\ \/ \E text \in TextsOf(DiffPieces, MaxPieces) :
              call = [fn |-> "none", src |-> "text", arg |-> text,
                      once |-> << >>, ret |-> << >>]
       \/ \E cells \in SomeColumns : \E column_type \in {"original", "amended"} :
              call = [fn |-> "none", src |-> "cells",
                      arg |-> Join(CellTexts(cells, column_type), NL),
                      once |-> << >>, ret |-> << >>]

CallRemoveUnnecTags ==
    /\ pc = "idle"
    /\ call.fn = "none"
    /\ call' = [call EXCEPT !.fn = "remove_unnec_tags",
                            !.once = remove_unnec_tags(call.arg),
                            !.ret = remove_unnec_tags(call.arg)]
    /\ UNCHANGED parseVars

\* the result of the first call is passed to a second call
CallRemoveUnnecTagsAgain ==
    /\ pc = "idle"
    /\ call.fn = "remove_unnec_tags"
    /\ call' = [call EXCEPT !.fn = "remove_unnec_tags twice",
                            !.ret = remove_unnec_tags(call.ret)]
    /\ UNCHANGED parseVars

NextCollapse == CallRemoveUnnecTags \/ CallRemoveUnnecTagsAgain

SpecCollapse == InitCollapse /\ [][NextCollapse]_vars

\* C7 as claimed: on every string of text, whitespace and [ADD], [/ADD],
\* [DEL], [/DEL], remove_unnec_tags applied twice gives what it gives
\* applied once.
C7_Idempotent ==
    call.fn = "remove_unnec_tags twice" => call.ret = call.once

\* C7 as amended: on every string that parse_amendments stores in Original or
\* Amended (the newline-joined process_table_cell texts of a column, made
\* from runs without square brackets), remove_unnec_tags applied twice gives
\* what it gives applied once.
C7_IdempotentOnCellText ==
    (call.fn = "remove_unnec_tags twice" /\ call.src = "cells")
        => call.ret = call.once

\* three neighbouring [DEL] spans in one cell, collapsed by the first call
C7_Witness ==
    /\ call.fn = "remove_unnec_tags twice"
    /\ call.src = "cells"
    /\ call.arg = Del_(<< "a" >>) \o << " " >> \o Del_(<< "a" >>) \o << " " >>
                  \o Del_(<< "a" >>)
    /\ call.once = Del_(<< "a", "a", "a" >>)

-----------------------------------------------------------------------------
(* Comparison tables *)

\* at least two columns, at least three rows in each
WellShaped(block) ==
    /\ block.type = "table"
    /\ Len(block.columns) >= 2
    /\ \A c \in 1..Len(block.columns) : Len(block.columns[c]) >= 3

RECURSIVE WellShapedTables(_)
WellShapedTables(blocks) ==
    IF blocks = << >> THEN << >>
    ELSE IF WellShaped(Head(blocks))
    THEN << Head(blocks) >> \o WellShapedTables(Tail(blocks))
    ELSE WellShapedTables(Tail(blocks))

\* the boundaries whose accumulator is the one the result is made from
LastBoundaries ==
    { i \in Boundaries(doc) :
          \A j \in Boundaries(doc) :
              j > i => BoundaryNum(j) # BoundaryNum(i) }

\* the well-shaped tables of the region the boundary at index i opens
RegionTables(i) == WellShapedTables(UpToBoundary(doc, i + 1))

\* the text of rows 2..N of a column, row by row, with its diff tags
RowTexts(column, column_type) ==
    [r \in 1..(Len(column) - 2) |-> process_table_cell(column[r + 2], column_type)]

\* the same, each row passed through the collapse normalization
CollapsedRowTexts(column, column_type) ==
    [r \in 1..(Len(column) - 2) |->
        remove_unnec_tags(process_table_cell(column[r + 2], column_type))]

-----------------------------------------------------------------------------
(* Author lists: one amendment whose RepeatBlock-By value varies *)

\* the most pieces in a RepeatBlock-By value
MaxByPieces == 5

ByPieces == { Tag("Members"), EndTag("Members"), << "," >>, << " " >>,
              << "Jane" >> }

ByParagraph(value) ==
    Paragraph(Tag("RepeatBlock-By") \o value \o EndTag("RepeatBlock-By"))

JaneJohn == Tag("Members")
            \o << "Jane", " ", "Doe", ",", " ", "John", " ", "Smith" >>
            \o EndTag("Members")

ByDocs ==
    { << P_NumAm12, ByParagraph(v) >> : v \in TextsOf(ByPieces, MaxByPieces) }
    \cup { << P_NumAm12, ByParagraph(JaneJohn) >>,
           << P_NumAm12, T_Compare, P_By, P_By >>,
           << P_NumAm12 >> }

InitBy ==
    /\ \/ openable = TRUE /\ doc \in ByDocs
       \/ openable = FALSE /\ doc = << >>
    /\ InitParse

SpecBy == InitBy /\ [][Next]_vars

\* the RepeatBlock-By value of a record, read again from its raw_content
RawBy(rec) ==
    parse_xml_tags(rec[Key("raw_content")].val[1])[Key("RepeatBlock-By")].val[1]

Commas(s) == Cardinality({ i \in 1..Len(s) : s[i] = "," })

\* s without the occurrences of <Members>, then without those of </Members>
RECURSIVE Without(_, _)
Without(s, marker) ==
    IF s = << >> THEN << >>
    ELSE IF StartsWithAt(s, 1, marker)
    THEN Without(Sub(s, Len(marker) + 1, Len(s)), marker)
    ELSE << Head(s) >> \o Without(Tail(s), marker)

\* the pieces of s between its commas
RECURSIVE Pieces(_, _)
Pieces(s, piece) ==
    IF s = << >> THEN << piece >>
    ELSE IF Head(s) = "," THEN << piece >> \o Pieces(Tail(s), << >>)
    ELSE Pieces(Tail(s), Append(piece, Head(s)))

Trimmed(s) == s = << >> \/ (~IsSpace(s[1]) /\ ~IsSpace(s[Len(s)]))

\* C9: By is the RepeatBlock-By value without its <Members> and </Members>
\* substrings, split on commas, each piece trimmed, in order; it has one
\* name more than the value has commas; '<Members>Jane Doe, John
\* Smith</Members>' gives ['Jane Doe', 'John Smith'].
C9_AuthorSplitting ==
    pc = "returned" =>
        \A n \in DOMAIN parsed_amendments :
            LET rec == parsed_amendments[n]
                by == rec[Key("By")].val
                bare == Without(Without(RawBy(rec), Tag("Members")),
                                EndTag("Members"))
            IN  /\ Len(by) = Commas(RawBy(rec)) + 1
                /\ Len(by) = Len(Pieces(bare, << >>))
                /\ \A i \in 1..Len(by) :
                       /\ Trimmed(by[i])
                       /\ by[i] = Strip(Pieces(bare, << >>)[i])
                /\ RawBy(rec) = JaneJohn =>
                       by = << << "Jane", " ", "Doe" >>,
                               << "John", " ", "Smith" >> >>

C9_Witness ==
    /\ pc = "returned"
    /\ 12 \in DOMAIN parsed_amendments
    /\ RawBy(parsed_amendments[12]) = JaneJohn
    /\ parsed_amendments[12][Key("By")].val =
           << << "Jane", " ", "Doe" >>, << "John", " ", "Smith" >> >>

-----------------------------------------------------------------------------
(* Calls of parse_xml_tags on texts with attributes in their tags *)

\* <X a> and </X a>
OpenAttr == << "<", "X", " ", "a", ">" >>
CloseAttr == << "<", "/", "X", " ", "a", ">" >>

AttrPieces == { OpenAttr, CloseAttr, Tag("X"), EndTag("X"), << "v" >>,
                << " " >> }

InitAttrs ==
    /\ IdleParse
    /\ \E text \in TextsOf(AttrPieces, MaxPieces) :
           call = [fn |-> "none", src |-> "text", arg |-> text,
                   once |-> EmptyDict, ret |-> EmptyDict]

SpecAttrs == InitAttrs /\ [][NextTags]_vars

\* C11: a text that starts with the opening tag <X a>, goes on with content
\* free of tags and then has the closing tag </X> is parsed to a map with the
\* key X, the part of the opening tag before its first space, and the
\* trimmed content as its (first) value.
C11_AttributesIgnored ==
    call.fn = "parse_xml_tags" =>
        LET k == Find(call.arg, EndTag("X"), Len(OpenAttr) + 1)
        IN  (/\ StartsWithAt(call.arg, 1, OpenAttr)
             /\ k # 0
             /\ \A j \in (Len(OpenAttr) + 1)..(k - 1) : call.arg[j] # "<")
                => /\ Key("X") \in DOMAIN call.ret
                   /\ call.ret[Key("X")].val[1] =
                          Strip(Sub(call.arg, Len(OpenAttr) + 1, k - 1))

-----------------------------------------------------------------------------
(* Amendment numbers: documents whose boundaries carry 0, 12, 9999 and a   *)
(* number of five digits                                                   *)

P_NumAm0 == Paragraph(Tag("NumAm") \o << "0" >> \o EndTag("NumAm"))
P_NumAm9999 == Paragraph(Tag("NumAm") \o << "9", "9", "9", "9" >>
                         \o EndTag("NumAm"))
P_NumAm12345 == Paragraph(Tag("NumAm") \o << "1", "2", "3", "4", "5" >>
                          \o EndTag("NumAm"))

NumBlocks == { P_NumAm0, P_NumAm12, P_NumAm9999, P_NumAm12345, P_By,
               T_Compare }

NumDocs == UNION { [1..n -> NumBlocks] : n \in 0..MaxBlocks }

InitNums ==
    /\ \/ openable = TRUE /\ doc \in NumDocs
       \/ openable = FALSE /\ doc = << >>
    /\ InitParse

SpecNums == InitNums /\ [][Next]_vars

\* the numbers that text carries between <NumAm> and </NumAm>, one to four
\* digits each
NumbersIn(text) ==
    { ToInt(Sub(text, i + 3, i + 2 + n)) :
          <<i, n>> \in { p \in (1..Len(text)) \X (1..MaxNumAmDigits) :
                           /\ StartsWithAt(text, p[1], Tag("NumAm"))
                           /\ p[1] + 2 + p[2] <= Len(text)
                           /\ \A k \in (p[1] + 3)..(p[1] + 2 + p[2]) :
                                  text[k] \in Digits
                           /\ StartsWithAt(text, p[1] + 3 + p[2],
                                           EndTag("NumAm")) } }

DocNumbers ==
    UNION { NumbersIn(doc[i].text) :
                i \in { j \in 1..Len(doc) : doc[j].type = "paragraph" } }

\* the largest number of four digits
MaxNumAm == 9999

\* C12 as claimed: every key of the returned amendments mapping is an
\* integer >= 1 taken from a <NumAm> boundary of the document, and lies in
\* 1..9999.
C12_KeysPositive ==
    pc = "returned" =>
        \A n \in DOMAIN parsed_amendments :
            n \in DocNumbers /\ n >= 1 /\ n <= MaxNumAm

\* C12 as amended: every key of the returned amendments mapping is an
\* integer taken from a <NumAm> boundary of the document and lies in
\* 0..9999; the key is 0 when the digits of the boundary are all zeros.
C12_KeysInRange ==
    pc = "returned" =>
        \A n \in DOMAIN parsed_amendments :
            n \in DocNumbers /\ n >= 0 /\ n <= MaxNumAm

\* the keys 0 and 9999 next to a number of five digits that is no boundary
C12_Witness ==
    /\ pc = "returned"
    /\ DOMAIN parsed_amendments = {0, 9999}
    /\ \E i \in 1..Len(doc) : doc[i] = P_NumAm12345

-----------------------------------------------------------------------------
(* Calls of extract_deletions and extract_additions *)

SpanPieces == { OpenSpan("DEL"), CloseSpan("DEL"), OpenSpan("ADD"),
                CloseSpan("ADD"), << "x" >>, << "\n" >> }

InitExtract ==
    /\ IdleParse
    /\ \E text \in TextsOf(SpanPieces, MaxPieces) :
           call = [fn |-> "none", src |-> "text", arg |-> text,
                   once |-> << >>, ret |-> << >>]

CallExtractDeletions ==
    /\ pc = "idle"
    /\ call.fn = "none"
    /\ call' = [call EXCEPT !.fn = "extract_deletions",
                            !.once = extract_deletions(call.arg),
                            !.ret = extract_deletions(call.arg)]
    /\ UNCHANGED parseVars

CallExtractAdditions ==
    /\ pc = "idle"
    /\ call.fn = "none"
    /\ call' = [call EXCEPT !.fn = "extract_additions",
                            !.once = extract_additions(call.arg),
                            !.ret = extract_additions(call.arg)]
    /\ UNCHANGED parseVars

NextExtract == CallExtractDeletions \/ CallExtractAdditions

SpecExtract == InitExtract /\ [][NextExtract]_vars

\* the contents of the spans of text from index i on, in order: each opening
\* tag that has a closing tag after it, with what lies before the nearest one
RECURSIVE NearestSpans(_, _, _)
NearestSpans(text, kind, i) ==
    IF i > Len(text) THEN << >>
    ELSE IF /\ StartsWithAt(text, i, OpenSpan(kind))
            /\ Find(text, CloseSpan(kind), i + 3) # 0
    THEN << Sub(text, i + 3, Find(text, CloseSpan(kind), i + 3) - 1) >>
         \o NearestSpans(text, kind, Find(text, CloseSpan(kind), i + 3) + 4)
    ELSE NearestSpans(text, kind, i + 1)

\* the contents joined with ' | ', span by span
RECURSIVE BarJoined(_)
BarJoined(spans) ==
    IF spans = << >> THEN << >>
    ELSE IF Len(spans) = 1 THEN spans[1]
    ELSE spans[1] \o << " ", "|", " " >> \o BarJoined(Tail(spans))

\* no newline lies between an opening tag and the nearest closing tag
SpansOnOneLine(text, kind) ==
    \A i \in 1..Len(text) :
        (/\ StartsWithAt(text, i, OpenSpan(kind))
         /\ Find(text, CloseSpan(kind), i + 3) # 0)
            => \A k \in (i + 3)..(Find(text, CloseSpan(kind), i + 3) - 1) :
                   text[k] # "\n"

CallKind == IF call.fn = "extract_deletions" THEN "DEL" ELSE "ADD"

\* C13 as claimed: for any text, extract_additions (extract_deletions) gives
\* the contents of every [ADD]...[/ADD] ([DEL]...[/DEL]) span, each matched
\* to its nearest closing tag, in order, joined with ' | '; the empty string
\* when there is no span.
C13_EverySpan ==
    call.fn \in {"extract_deletions", "extract_additions"} =>
        call.ret = BarJoined(NearestSpans(call.arg, CallKind, 1))

\* C13 as amended: the same, for any text in which no newline lies between
\* an opening tag and its nearest closing tag.
C13_EverySpanOnOneLine ==
    (/\ call.fn \in {"extract_deletions", "extract_additions"}
     /\ SpansOnOneLine(call.arg, CallKind))
        => call.ret = BarJoined(NearestSpans(call.arg, CallKind, 1))

\* two spans give 'x | x'
C13_Witness ==
    /\ call.fn = "extract_deletions"
    /\ call.arg = OpenSpan("DEL") \o << "x" >> \o CloseSpan("DEL")
                  \o OpenSpan("DEL") \o << "x" >> \o CloseSpan("DEL")
    /\ call.ret = << "x", " ", "|", " ", "x" >>

-----------------------------------------------------------------------------
(* The two states of the walk *)

\* the step consumes the block doc[idx + 1]
Consumes == pc = "walk" /\ idx < Len(doc) /\ idx' = idx + 1

\* C14: the walk starts in CollectingHeader; a step that consumes a boundary
\* leaves CollectingHeader; once CollectingHeader is left no step returns to
\* it, and no step changes the header buffer from then on.
C14_Monotone ==
    /\ collecting_header = TRUE
    /\ [][/\ (Consumes /\ IsBoundary(doc[idx + 1])) => ~collecting_header'
          /\ ~collecting_header =>
                 (~collecting_header' /\ header_data' = header_data)]_vars

\* header paragraphs, a boundary, then a paragraph and a table consumed
C14_Witness ==
    /\ pc = "walk"
    /\ ~collecting_header
    /\ Len(header_data) = 2
    /\ idx >= 5
    /\ IsBoundary(doc[3])
    /\ doc[4].type = "paragraph" /\ ~IsBoundary(doc[4])
    /\ doc[5].type = "table"

-----------------------------------------------------------------------------
(* An amendment number opened twice *)

TableKeys == { Key("OriginalType"), Key("Original"), Key("AmendedType"),
               Key("Amended") }

\* the boundaries that open a number an earlier boundary has opened
Reopened == { i \in LastBoundaries :
                  \E j \in Boundaries(doc) :
                      j < i /\ BoundaryNum(j) = BoundaryNum(i) }

\* the paragraphs of the regions of the earlier boundaries of that number
EarlierTexts(i) ==
    UNION { { ParagraphTexts(UpToBoundary(doc, j + 1))[k] :
                k \in 1..Len(ParagraphTexts(UpToBoundary(doc, j + 1))) } :
            j \in { j \in Boundaries(doc) :
                        j < i /\ BoundaryNum(j) = BoundaryNum(i) } }

\* C15: when two boundaries open the same number, the record of that number
\* is made from the blocks after the later boundary only: its raw_content is
\* the text of the later region, its tags are the tags of that text, and it
\* has table fields only when the later region has a comparison table, taken
\* from that region's table.
C15_LaterBoundaryOnly ==
    pc = "returned" =>
        \A i \in Reopened :
            LET rec == parsed_amendments[BoundaryNum(i)]
                tags == parse_xml_tags(RegionText(doc, i))
            IN  /\ rec[Key("raw_content")] = Str(RegionText(doc, i))
                /\ \A k \in DOMAIN tags \ {Key("RepeatBlock-By")} :
                       k \in DOMAIN rec
                /\ DOMAIN rec \subseteq
                       (DOMAIN tags \ {Key("RepeatBlock-By")})
                           \cup TableKeys
                           \cup {Key("By"), Key("raw_content"),
                                 Key("Justification")}
                /\ IF RegionTables(i) = << >>
                   THEN DOMAIN rec \cap TableKeys = {}
                   ELSE rec[Key("Original")] =
                            Str(Join(RowTexts(
                                RegionTables(i)[Len(RegionTables(i))].columns[1],
                                "original"), NL))

\* the earlier region had a paragraph with a tag and a table, the later one
\* has neither, and the record has nothing of them
C15_Witness ==
    /\ pc = "returned"
    /\ \E i \in Reopened :
           /\ Strip(P_Article.text) \in EarlierTexts(i)
           /\ \E j \in 1..(i - 1) : doc[j] = T_Compare
           /\ RegionTables(i) = << >>
           /\ Key("Article") \notin DOMAIN parsed_amendments[BoundaryNum(i)]
           /\ Key("Original") \notin DOMAIN parsed_amendments[BoundaryNum(i)]

-----------------------------------------------------------------------------
(* Tables *)

\* C16: a step that consumes a table while the walk is in CollectingHeader
\* changes neither the header buffer nor the amendments mapping nor the
\* state of the walk.
C16_HeaderTableIgnored ==
    [][(Consumes /\ doc[idx + 1].type = "table" /\ collecting_header) =>
           /\ header_data' = header_data
           /\ amendments' = amendments
           /\ order' = order
           /\ collecting_header' = collecting_header
           /\ current_amendment' = current_amendment]_vars

\* a comparison table has been consumed and the walk is still in
\* CollectingHeader
C16_Witness ==
    /\ pc = "walk"
    /\ collecting_header
    /\ idx >= 1
    /\ WellShaped(doc[idx])
    /\ amendments = EmptyDict

\* fewer than two columns, or two or fewer rows in column 0
Malformed(block) ==
    /\ block.type = "table"
    /\ \/ Len(block.columns) < 2
       \/ Len(block.columns[1]) <= 2

\* C17: a step that consumes a table with fewer than two columns, or with
\* two or fewer rows in column 0, leaves every accumulator as it was (no
\* table field is set, none set by an earlier table is changed) and the walk
\* goes on: nothing is raised.
C17_MalformedSkipped ==
    [][(Consumes /\ Malformed(doc[idx + 1])) =>
           /\ amendments' = amendments
           /\ header_data' = header_data
           /\ pc' = "walk"
           /\ result' = NoResult]_vars

\* a malformed table consumed after a comparison table of the same
\* amendment, whose fields are still there
C17_Witness ==
    /\ pc = "walk"
    /\ idx >= 3
    /\ Malformed(doc[idx])
    /\ WellShaped(doc[idx - 1])
    /\ current_amendment # None
    /\ amendments[current_amendment][Key("Original")] =
           Str(Join(RowTexts(doc[idx - 1].columns[1], "original"), NL))

\* the last comparison table of the region the boundary at index i opens
LastTable(i) == RegionTables(i)[Len(RegionTables(i))]

\* C18: when the region of an amendment holds several comparison tables,
\* OriginalType, Original, AmendedType and Amended of its record are all
\* taken from the last of them in document order.
C18_LastTableWins ==
    pc = "returned" =>
        \A i \in LastBoundaries :
            Len(RegionTables(i)) >= 2 =>
                LET rec == parsed_amendments[BoundaryNum(i)]
                    c0 == LastTable(i).columns[1]
                    c1 == LastTable(i).columns[2]
                IN  /\ rec[Key("OriginalType")] =
                           Str(process_table_cell(c0[2], ""))
                    /\ rec[Key("Original")] =
                           Str(Join(RowTexts(c0, "original"), NL))
                    /\ rec[Key("AmendedType")] =
                           Str(process_table_cell(c1[2], ""))
                    /\ rec[Key("Amended")] =
                           Str(Join(RowTexts(c1, "amended"), NL))

\* a region with two comparison tables that differ in all four fields, and
\* a malformed table after them
C18_Witness ==
    /\ pc = "returned"
    /\ \E i \in LastBoundaries :
           /\ RegionTables(i) = << T_Compare, T_Labels >>
           /\ doc[Len(doc)] = T_Short
           /\ parsed_amendments[BoundaryNum(i)][Key("AmendedType")] =
                  Str(<< "Amendment" >>)
           /\ parsed_amendments[BoundaryNum(i)][Key("Amended")] =
                  Str(Add_(<< "q" >>))
           /\ parsed_amendments[BoundaryNum(i)][Key("Original")] =
                  Str(<< "p" >>)

-----------------------------------------------------------------------------
(* Calls of process_table_cell on the cells of rows 2..N *)

RunTexts == { << "a" >>, << " ", "b", " ", "c", " " >>, << " " >> }

AllRuns == { Run(t, b, i) : t \in RunTexts, b \in BOOLEAN, i \in BOOLEAN }

AllCells == UNION { [1..n -> AllRuns] : n \in 0..MaxRuns }

InitCells ==
    /\ IdleParse
    /\ \E cell \in AllCells :
           call = [fn |-> "none", src |-> "runs", arg |-> cell,
                   column_type |-> "", once |-> << >>, ret |-> << >>]

\* process_table_cell(cell, column_type) for a cell of column 0 or column 1
CallProcessTableCell ==
    /\ pc = "idle"
    /\ call.fn = "none"
    /\ \E column_type \in {"original", "amended"} :
           call' = [call EXCEPT
                        !.fn = "process_table_cell",
                        !.column_type = column_type,
                        !.once = process_table_cell(call.arg, column_type),
                        !.ret = process_table_cell(call.arg, column_type)]
    /\ UNCHANGED parseVars

NextCells == CallProcessTableCell

SpecCells == InitCells /\ [][NextCells]_vars

\* the runs of a cell that are not empty after trimming, in run order
RECURSIVE NonEmptyRuns(_)
NonEmptyRuns(cell) ==
    IF cell = << >> THEN << >>
    ELSE IF Strip(Head(cell).text) = << >> THEN NonEmptyRuns(Tail(cell))
    ELSE << Head(cell) >> \o NonEmptyRuns(Tail(cell))

KindOf(column_type) == IF column_type = "original" THEN "DEL" ELSE "ADD"

\* what a non-empty run is emitted as
Emitted(run, kind) ==
    IF run.bold /\ run.italic
    THEN << "[", kind, "]" >> \o Strip(run.text) \o << "[", "/", kind, "]" >>
    ELSE Strip(run.text)

RECURSIVE SpaceJoined(_)
SpaceJoined(texts) ==
    IF texts = << >> THEN << >>
    ELSE IF Len(texts) = 1 THEN texts[1]
    ELSE texts[1] \o << " " >> \o SpaceJoined(Tail(texts))

\* C19: the text of a cell of rows 2..N is made of its runs that are not
\* empty after trimming, in run order, joined by one space; a run is
\* emitted as [DEL]text[/DEL] (column 0) or [ADD]text[/ADD] (column 1) when
\* it is both bold and italic, and as its plain trimmed text otherwise.
C19_DiffTagging ==
    call.fn = "process_table_cell" =>
        LET runs == NonEmptyRuns(call.arg)
        IN  call.ret =
                SpaceJoined([n \in 1..Len(runs) |->
                                Emitted(runs[n], KindOf(call.column_type))])

\* a bold-only run, an empty run and a bold and italic run, in column 1
C19_Witness ==
    /\ call.fn = "process_table_cell"
    /\ call.column_type = "amended"
    /\ call.arg = << Run(<< "a" >>, TRUE, FALSE), Run(<< " " >>, TRUE, TRUE),
                     Run(<< " ", "b", " ", "c", " " >>, TRUE, TRUE) >>
    /\ call.ret = << "a", " " >> \o Add_(<< "b", " ", "c" >>)

-----------------------------------------------------------------------------
(* The type labels of a comparison table *)

\* the trimmed texts of the non-empty runs of a cell, joined by one space
PlainText(cell) ==
    SpaceJoined([n \in 1..Len(NonEmptyRuns(cell)) |->
                    Strip(NonEmptyRuns(cell)[n].text)])

\* C20: OriginalType (AmendedType) is the space-joined trimmed text of all
\* non-empty runs of row 1 of column 0 (column 1), without diff tags,
\* whatever the formatting of those runs.
C20_LabelsFullText ==
    pc = "returned" =>
        \A i \in LastBoundaries :
            RegionTables(i) # << >> =>
                LET rec == parsed_amendments[BoundaryNum(i)]
                IN  /\ rec[Key("OriginalType")] =
                           Str(PlainText(LastTable(i).columns[1][2]))
                    /\ rec[Key("AmendedType")] =
                           Str(PlainText(LastTable(i).columns[2][2]))

-----------------------------------------------------------------------------
(* The collapse normalization, with and without whitespace between the tags *)

\* the text from index i on without any closing tag of the kind that is
\* followed, after whitespace or none, by the opening tag of the kind
RECURSIVE WithoutAbutting(_, _, _)
WithoutAbutting(s, kind, i) ==
    IF i > Len(s) THEN << >>
    ELSE IF /\ StartsWithAt(s, i, CloseSpan(kind))
            /\ StartsWithAt(s, SkipSpace(s, i + 4), OpenSpan(kind))
    THEN WithoutAbutting(s, kind, SkipSpace(s, i + 4) + 3)
    ELSE << s[i] >> \o WithoutAbutting(s, kind, i + 1)

\* C21: remove_unnec_tags removes a closing tag followed by the opening tag
\* of the same kind whether or not whitespace lies between them, for DEL and
\* for ADD.
C21_CollapseOptionalSpace ==
    call.fn = "remove_unnec_tags" =>
        call.ret = WithoutAbutting(WithoutAbutting(call.arg, "DEL", 1),
                                   "ADD", 1)

-----------------------------------------------------------------------------
(* Tags named like the fields of the record *)

\* the keys the walk sets, and the keys the loop over the amendments sets
WalkKeys == TableKeys \cup {Key("raw_content")}
LoopKeys == {Key("By"), Key("Justification"), Key("RepeatBlock-By")}

\* raw_content and the table fields of the record of the boundary at i hold
\* the raw text and the fields of the last comparison table of its region
WalkValuesWin(i) ==
    LET rec == parsed_amendments[BoundaryNum(i)]
    IN  /\ rec[Key("raw_content")] = Str(RegionText(doc, i))
        /\ RegionTables(i) # << >> =>
               /\ rec[Key("OriginalType")] =
                      Str(process_table_cell(LastTable(i).columns[1][2], ""))
               /\ rec[Key("Original")] =
                      Str(Join(RowTexts(LastTable(i).columns[1], "original"),
                               NL))
               /\ rec[Key("AmendedType")] =
                      Str(process_table_cell(LastTable(i).columns[2][2], ""))
               /\ rec[Key("Amended")] =
                      Str(Join(RowTexts(LastTable(i).columns[2], "amended"),
                               NL))

\* C22 as claimed: in the record of an amendment the table fields and
\* raw_content hold the table and raw values even when the text of the
\* region has tags of those names, and every other key of the record holds
\* the value the tag parser gives it.
C22_OverlayPrecedence ==
    pc = "returned" =>
        \A i \in LastBoundaries :
            LET rec == parsed_amendments[BoundaryNum(i)]
                tags == parse_xml_tags(RegionText(doc, i))
            IN  /\ WalkValuesWin(i)
                /\ \A k \in DOMAIN rec \ WalkKeys :
                       k \in DOMAIN tags /\ rec[k] = tags[k]

\* C22 as amended: the table fields and raw_content hold the table and raw
\* values even when the text has tags of those names; By is the author list
\* and Justification the text after the marker, also over tags of those
\* names; RepeatBlock-By is absent; every other key holds the tag parser's
\* value, a table field of a region without a comparison table included.
C22_OverlayAndLoopPrecedence ==
    pc = "returned" =>
        \A i \in LastBoundaries :
            LET rec == parsed_amendments[BoundaryNum(i)]
                tags == parse_xml_tags(RegionText(doc, i))
                table == IF RegionTables(i) = << >> THEN {} ELSE TableKeys
                just == JustSearch(RegionText(doc, i))
            IN  /\ WalkValuesWin(i)
                /\ rec[Key("By")] =
                       List(MembersList(tags[Key("RepeatBlock-By")].val[1]))
                /\ just.found =>
                       rec[Key("Justification")] = Str(Strip(just.group1))
                /\ Key("RepeatBlock-By") \notin DOMAIN rec
                /\ DOMAIN rec =
                       ((DOMAIN tags \ {Key("RepeatBlock-By")})
                        \cup table \cup {Key("raw_content"), Key("By")}
                        \cup (IF just.found THEN {Key("Justification")}
                              ELSE {}))
                /\ \A k \in DOMAIN tags :
                       (/\ k \notin table \cup {Key("raw_content"), Key("By"),
                                                Key("RepeatBlock-By")}
                        /\ ~(k = Key("Justification") /\ just.found))
                           => rec[k] = tags[k]

\* a region with a comparison table and with tags named Original,
\* raw_content, By and Article
C22_Witness ==
    /\ pc = "returned"
    /\ \E i \in LastBoundaries :
           LET rec == parsed_amendments[BoundaryNum(i)]
               tags == parse_xml_tags(RegionText(doc, i))
           IN  /\ RegionTables(i) = << T_Compare >>
               /\ {Key("Original"), Key("raw_content"), Key("By")}
                      \subseteq DOMAIN tags
               /\ tags[Key("Original")] = Str(<< "t" >>)
               /\ tags[Key("raw_content")] = Str(<< "r" >>)
               /\ tags[Key("By")] = Str(<< "b" >>)
               /\ rec[Key("Original")] =
                      Str(Del_(<< "old" >>) \o << " ", "words" >>)
               /\ rec[Key("Article")] = Str(<< "4" >>)

-----------------------------------------------------------------------------
(* Justification *)

HasMarker(raw) == \E i \in 1..Len(raw) : StartsWithAt(raw, i, JustMarker)

\* the index after the first marker of raw
AfterMarker(raw) ==
    (CHOOSE i \in 1..Len(raw) :
         /\ StartsWithAt(raw, i, JustMarker)
         /\ \A j \in 1..(i - 1) : ~StartsWithAt(raw, j, JustMarker))
    + Len(JustMarker)

\* the index of the first "<" at or after index i, or the index after the end
NextLt(raw, i) ==
    IF \E e \in i..Len(raw) : raw[e] = "<"
    THEN CHOOSE e \in i..Len(raw) :
             raw[e] = "<" /\ \A j \in i..(e - 1) : raw[j] # "<"
    ELSE Len(raw) + 1

\* the trimmed text between the first marker and the next "<" or the end
MarkedText(raw) ==
    Strip(Sub(raw, AfterMarker(raw), NextLt(raw, AfterMarker(raw)) - 1))

NoLt(text) == \A k \in 1..Len(text) : text[k] # "<"

\* C23 as claimed: a record has Justification if and only if its raw_content
\* holds the marker; Justification is then the trimmed text from after the
\* first marker up to the next "<" or the end, and holds no "<".
C23_JustificationIffMarker ==
    pc = "returned" =>
        \A n \in DOMAIN parsed_amendments :
            LET rec == parsed_amendments[n]
                raw == rec[Key("raw_content")].val[1]
            IN  /\ Key("Justification") \in DOMAIN rec <=> HasMarker(raw)
                /\ Key("Justification") \in DOMAIN rec =>
                       /\ rec[Key("Justification")] = Str(MarkedText(raw))
                       /\ NoLt(rec[Key("Justification")].val[1])

\* C23 as amended: when raw_content holds the marker, Justification is the
\* trimmed text from after the first marker up to the next "<" or the end,
\* and holds no "<"; when it does not, the record has Justification only
\* when the text has a tag of that name, with the tag parser's value.
C23_JustificationFromMarker ==
    pc = "returned" =>
        \A n \in DOMAIN parsed_amendments :
            LET rec == parsed_amendments[n]
                raw == rec[Key("raw_content")].val[1]
                tags == parse_xml_tags(raw)
            IN  IF HasMarker(raw)
                THEN /\ Key("Justification") \in DOMAIN rec
                     /\ rec[Key("Justification")] = Str(MarkedText(raw))
                     /\ NoLt(rec[Key("Justification")].val[1])
                ELSE /\ Key("Justification") \in DOMAIN rec
                            <=> Key("Justification") \in DOMAIN tags
                     /\ Key("Justification") \in DOMAIN rec =>
                            rec[Key("Justification")] =
                                tags[Key("Justification")]

\* a justification of two lines that ends at the tag of the next paragraph
C23_Witness ==
    /\ pc = "returned"
    /\ \E n \in DOMAIN parsed_amendments :
           /\ Key("Justification") \in DOMAIN parsed_amendments[n]
           /\ parsed_amendments[n][Key("Justification")] =
                  Str(<< "why", "\n", "Committee:", " ", "AGRI" >>)
           /\ Len(parsed_amendments[n][Key("raw_content")].val[1])
                  > Len(JustMarker) + 8

-----------------------------------------------------------------------------
(* Regions *)

DistinctNumbers ==
    \A i, j \in Boundaries(doc) : BoundaryNum(i) = BoundaryNum(j) => i = j

\* the trimmed texts of the paragraphs of the document that are no
\* boundaries, in document order
RECURSIVE PlainParagraphs(_)
PlainParagraphs(blocks) ==
    IF blocks = << >> THEN << >>
    ELSE IF Head(blocks).type = "paragraph" /\ ~IsBoundary(Head(blocks))
    THEN << Strip(Head(blocks).text) >> \o PlainParagraphs(Tail(blocks))
    ELSE PlainParagraphs(Tail(blocks))

\* the texts collected for the amendments of nums, one list after the other
RECURSIVE CollectedFor(_)
CollectedFor(nums) ==
    IF nums = << >> THEN << >>
    ELSE amendments[Head(nums)][Key("raw_content")].val
         \o CollectedFor(Tail(nums))

\* C24: when the numbers of the document are all distinct, raw_content of
\* amendment n is the newline-join, in document order, of the trimmed texts
\* of the non-boundary paragraphs between the boundary of n and the next
\* boundary or the end; the header buffer followed by the buffers of the
\* amendments holds every non-boundary paragraph of the document once.
C24_RegionComposition ==
    (DistinctNumbers /\ pc \in {"amendments", "returned", "raised"}
     /\ openable) =>
        /\ header_data \o CollectedFor(order) = PlainParagraphs(doc)
        /\ \A i \in Boundaries(doc) :
               /\ amendments[BoundaryNum(i)][Key("raw_content")].val =
                      ParagraphTexts(UpToBoundary(doc, i + 1))
               /\ BoundaryNum(i) \in DOMAIN parsed_amendments =>
                      parsed_amendments[BoundaryNum(i)][Key("raw_content")] =
                          Str(RegionText(doc, i))

\* two amendments, the first with two paragraphs
C24_Witness ==
    /\ pc = "returned"
    /\ doc = << P_NumAm7, P_Article, P_By, P_NumAm12, P_By >>
    /\ parsed_amendments[7][Key("raw_content")] =
           Str(Strip(P_Article.text) \o NL \o Strip(P_By.text))

-----------------------------------------------------------------------------
(* Boundary paragraphs *)

\* a boundary with text before and after the tag
P_NumAmText ==
    Paragraph(<< "Amendment", " " >> \o Tag("NumAm") \o << "7" >>
              \o EndTag("NumAm") \o << " ", "to", " ", "Article", " ", "4" >>)

BoundaryBlocks == { P_NumAmText, P_NumAm12, P_NumAm12345, P_Committee, P_By,
                    T_Compare }

BoundaryDocs == UNION { [1..n -> BoundaryBlocks] : n \in 0..MaxBlocks }

InitBoundary ==
    /\ \/ openable = TRUE /\ doc \in BoundaryDocs
       \/ openable = FALSE /\ doc = << >>
    /\ InitParse

SpecBoundary == InitBoundary /\ [][Next]_vars

\* the text holds <NumAm>, five digits or more, and </NumAm>
HasLongNumAm(text) ==
    \E i \in 1..Len(text) : \E n \in (MaxNumAmDigits + 1)..Len(text) :
        /\ StartsWithAt(text, i, Tag("NumAm"))
        /\ i + 2 + n <= Len(text)
        /\ \A k \in (i + 3)..(i + 2 + n) : text[k] \in Digits
        /\ StartsWithAt(text, i + 3 + n, EndTag("NumAm"))

\* the raw_content lists of the amendments other than the current one after
\* the step are what they were
OthersKept ==
    \A n \in DOMAIN amendments :
        n # current_amendment' =>
            (n \in DOMAIN amendments' /\ amendments'[n] = amendments[n])

\* a step that consumes a boundary leaves the header buffer and the other
\* amendments alone and opens an empty amendment
BoundaryAddsNoText ==
    (Consumes /\ IsBoundary(doc[idx + 1])) =>
        /\ header_data' = header_data
        /\ OthersKept
        /\ amendments'[current_amendment'] = NewAmendment

\* a step that consumes a paragraph whose only <NumAm> tags have five digits
\* or more appends its trimmed text where the walk is collecting
LongNumAmIsText ==
    (/\ Consumes
     /\ doc[idx + 1].type = "paragraph"
     /\ HasLongNumAm(doc[idx + 1].text)
     /\ ~IsBoundary(doc[idx + 1])) =>
        /\ current_amendment' = current_amendment
        /\ collecting_header' = collecting_header
        /\ DOMAIN amendments' = DOMAIN amendments
        /\ IF collecting_header
           THEN /\ header_data' = Append(header_data, Strip(doc[idx + 1].text))
                /\ amendments' = amendments
           ELSE /\ header_data' = header_data
                /\ amendments'[current_amendment][Key("raw_content")].val =
                       Append(amendments[current_amendment]
                                  [Key("raw_content")].val,
                              Strip(doc[idx + 1].text))

\* C25: a step that consumes a paragraph with an amendment-number tag
\* anywhere in its text appends nothing of it to the header buffer or to any
\* raw_content: the amendment it opens starts empty. A paragraph whose
\* <NumAm> tag has five digits or more, and no other, is appended as ordinary
\* text and opens nothing.
C25_BoundaryConsumedWhole ==
    [][BoundaryAddsNoText /\ LongNumAmIsText]_vars

\* a tag of five digits in the header, a boundary with text around its tag,
\* and a tag of five digits in its amendment
C25_Witness ==
    /\ pc = "walk"
    /\ idx = 3
    /\ doc[1] = P_NumAm12345 /\ doc[2] = P_NumAmText /\ doc[3] = P_NumAm12345
    /\ header_data = << P_NumAm12345.text >>
    /\ current_amendment = 7
    /\ amendments[7][Key("raw_content")].val = << P_NumAm12345.text >>

-----------------------------------------------------------------------------
(* create_amendment_report, and the loop over the rows in the handlers *)

\* str.lower() on the words of the model
LowerSym(c) ==
    CASE c = "A." -> "a."
      [] c = "One" -> "one"
      [] c = "B." -> "b."
      [] c = "Two" -> "two"
      [] OTHER -> c

Lower(s) == [k \in 1..Len(s) |-> LowerSym(s[k])]

\* meps = process_meps_data(): two members, one of them from Spain
meps ==
    << [name |-> << "A.", " ", "One" >>, political_group |-> << "EPP" >>,
        country |-> << "Spain" >>, national_party |-> << "PP" >>],
       [name |-> << "B.", " ", "Two", " " >>, political_group |-> << "S&D" >>,
        country |-> << "Germany" >>, national_party |-> << "SPD" >>] >>

\* the keys of meps_lookup
LookupName(mep) == Strip(Lower(mep.name))

\* meps_lookup.get(name): the records under the name (none or one)
MepsLookup(name) ==
    { meps[k] : k \in { k \in 1..Len(meps) :
                            /\ meps[k].name # << >>
                            /\ LookupName(meps[k]) = name
                            /\ \A j \in (k + 1)..Len(meps) :
                                   LookupName(meps[j]) # name } }

\* the names of the authors the loop over authors looks up
CleanedAuthors(authors) ==
    { Strip(Lower(Split(authors[k], "\n")[1])) :
          k \in { k \in 1..Len(authors) : Strip(authors[k]) # << >> } }
        \ { << >> }

MatchedMeps(authors) == UNION { MepsLookup(a) : a \in CleanedAuthors(authors) }

PoliticalGroups(authors) ==
    { m.political_group : m \in MatchedMeps(authors) } \ { << >> }

SpanishParties(authors) ==
    { m.national_party :
          m \in { m \in MatchedMeps(authors) : m.country = << "Spain" >> } }
        \ { << >> }

\* the group and party names of the model in the order sorted() gives them
SortedNames == << << "EPP" >>, << "PP" >>, << "S&D" >>, << "SPD" >> >>

\* ", ".join(sorted(list(names)))
SortedJoin(names) ==
    LET In(x) == x \in names
    IN  Join(SelectSeq(SortedNames, In), << ",", " " >>)

\* the amendment is skipped: no 'By', or a 'By' that is no list
SkipsAmendment(details) ==
    \/ Key("By") \notin DOMAIN details
    \/ details[Key("By")].kind # "list"

\* the dictionary appended to processed_amendments
ReportRow(amendment_id, details) ==
    [ENMIENDA |-> amendment_id,
     GRUPO |-> SortedJoin(PoliticalGroups(details[Key("By")].val)),
     SPAIN |-> SortedJoin(SpanishParties(details[Key("By")].val)),
     Part |-> details[Key("Article")]]

\* as ReportRows, with each row put before the rows made so far
RECURSIVE ReportRows_Reversed(_, _)
ReportRows_Reversed(nums, items) ==
    IF nums = << >> THEN << >>
    ELSE IF SkipsAmendment(items[Head(nums)])
    THEN ReportRows_Reversed(Tail(nums), items)
    ELSE ReportRows_Reversed(Tail(nums), items)
         \o << ReportRow(Head(nums), items[Head(nums)]) >>

\* processed_amendments after the loop over result_data['amendments'].items()
RECURSIVE ReportRows(_, _)
ReportRows(nums, items) ==
    IF nums = << >> THEN << >>
    ELSE IF SkipsAmendment(items[Head(nums)])
    THEN ReportRows(Tail(nums), items)
    ELSE << ReportRow(Head(nums), items[Head(nums)]) >>
         \o ReportRows(Tail(nums), items)

\* Part = amendment_details['Article'] raises KeyError for some amendment
MissingArticle(nums, items) ==
    \E k \in 1..Len(nums) :
        /\ ~SkipsAmendment(items[nums[k]])
        /\ Key("Article") \notin DOMAIN items[nums[k]]

\* a.get(key, ''), for a value that is a string
GetText(a, key) == IF key \in DOMAIN a THEN a[key].val[1] ELSE << >>

\* the value of a.get(key, '') is a list: the helpers raise on it
GetsList(a, key) == key \in DOMAIN a /\ a[key].kind = "list"

Comprobar == << "(Comprobar!!)" >>

\* the four columns the handler adds, empty in every row
WithColumns(row) ==
    [ENMIENDA |-> row.ENMIENDA, GRUPO |-> row.GRUPO, SPAIN |-> row.SPAIN,
     Part |-> row.Part, Resumen |-> << >>, Original |-> << >>,
     Elimina |-> << >>, Anade |-> << >>]

\* the row report_df.loc[i, ...] makes when the frame has no row i
NaNRow ==
    [ENMIENDA |-> None, GRUPO |-> << "NaN" >>, SPAIN |-> << "NaN" >>,
     Part |-> Str(<< "NaN" >>), Resumen |-> << "NaN" >>,
     Original |-> << "NaN" >>, Elimina |-> << "NaN" >>, Anade |-> << "NaN" >>]

\* the first inner try of the loop body
WithAnade(row, a) ==
    IF GetsList(a, Key("Amended"))
    THEN [row EXCEPT !.Anade = Comprobar]
    ELSE [row EXCEPT !.Anade =
              extract_additions(remove_unnec_tags(GetText(a, Key("Amended"))))]

\* the second inner try of the loop body
WithElimina(row, a) ==
    IF GetsList(a, Key("Original")) \/ GetsList(a, Key("OriginalType"))
    THEN [row EXCEPT !.Elimina = Comprobar]
    ELSE [row EXCEPT
              !.Elimina =
                  extract_deletions(remove_unnec_tags(GetText(a, Key("Original")))),
              !.Original = GetText(a, Key("OriginalType"))]

\* the body of the loop over enumerate(parsed['amendments'].values())
FillRow(row, a) ==
    IF Key("Propuesta de rechazo") \in DOMAIN a
    THEN [row EXCEPT !.Resumen = << "rechazada" >>]
    ELSE WithElimina(WithAnade(row, a), a)

\* the loop from index i on (i counts from 1 here)
RECURSIVE FillRows(_, _, _)
FillRows(df, values, i) ==
    IF i > Len(values) THEN df
    ELSE FillRows(IF i <= Len(df)
                  THEN [df EXCEPT ![i] = FillRow(df[i], values[i])]
                  ELSE Append(df, FillRow(NaNRow, values[i])),
                  values, i + 1)

\* report_df after the handler's loop
PostProcess(df, nums, items) ==
    FillRows([k \in 1..Len(df) |-> WithColumns(df[k])],
             [k \in 1..Len(nums) |-> items[nums[k]]], 1)

\* report_df = create_amendment_report(parsed)
CreateAmendmentReport ==
    /\ pc = "returned"
    /\ call.fn = "none"
    /\ ~MissingArticle(order, parsed_amendments)
    /\ call' = [call EXCEPT
                    !.fn = "create_amendment_report",
                    !.src = "parsed",
                    !.once = ReportRows(order, parsed_amendments),
                    !.ret = ReportRows(order, parsed_amendments)]
    /\ UNCHANGED parseVars

\* create_amendment_report(parsed) raises KeyError('Article')
RaiseArticleKeyError ==
    /\ pc = "returned"
    /\ call.fn = "none"
    /\ MissingArticle(order, parsed_amendments)
    /\ call' = [call EXCEPT !.fn = "processing failed", !.src = "parsed",
                            !.arg = Key("Article")]
    /\ UNCHANGED parseVars

\* the handler's loop over the rows
FillReport ==
    /\ pc = "returned"
    /\ call.fn = "create_amendment_report"
    /\ call' = [call EXCEPT
                    !.fn = "handler",
                    !.ret = PostProcess(call.ret, order, parsed_amendments)]
    /\ UNCHANGED parseVars

NextReport ==
    \/ Next
    \/ CreateAmendmentReport
    \/ RaiseArticleKeyError
    \/ FillReport

\* an article and an author in one paragraph
P_ArticleBy ==
    Paragraph(Tag("Article") \o << "Article", " ", "5" >> \o EndTag("Article")
              \o Tag("RepeatBlock-By") \o Tag("Members")
              \o << "B.", " ", "Two" >>
              \o EndTag("Members") \o EndTag("RepeatBlock-By"))

ReportBlocks == { P_NumAm12, P_NumAm7, P_ArticleBy, P_By, T_Compare, T_Labels }

ReportDocs == UNION { [1..n -> ReportBlocks] : n \in 0..MaxBlocks }

InitReport ==
    /\ \/ openable = TRUE /\ doc \in ReportDocs
       \/ openable = FALSE /\ doc = << >>
    /\ InitParse

SpecReport == InitReport /\ [][NextReport]_vars

\* the boundaries that open a number no earlier boundary has opened
FirstBoundaries ==
    { i \in Boundaries(doc) :
          \A j \in Boundaries(doc) : j < i => BoundaryNum(j) # BoundaryNum(i) }

\* the r-th of them in document order
FirstBoundary(r) ==
    CHOOSE i \in FirstBoundaries :
        Cardinality({ j \in FirstBoundaries : j <= i }) = r

\* C26: when parse_amendments and create_amendment_report both succeed, the
\* report has one row per amendment record, in the order of the first
\* occurrence of each number; after the handler's loop the values Anade,
\* Elimina and Original of row r are computed from the record whose number
\* is the ENMIENDA of row r.
C26_RowsAligned ==
    call.fn \in {"create_amendment_report", "handler"} =>
        /\ Len(call.ret) = Cardinality(DOMAIN parsed_amendments)
        /\ Len(call.ret) = Cardinality(FirstBoundaries)
        /\ \A r \in 1..Len(call.ret) :
               /\ call.ret[r].ENMIENDA = BoundaryNum(FirstBoundary(r))
               /\ call.fn = "handler" =>
                      LET a == parsed_amendments[call.ret[r].ENMIENDA]
                      IN  /\ call.ret[r].Anade =
                                 extract_additions(remove_unnec_tags(
                                     GetText(a, Key("Amended"))))
                          /\ call.ret[r].Elimina =
                                 extract_deletions(remove_unnec_tags(
                                     GetText(a, Key("Original"))))
                          /\ call.ret[r].Original =
                                 GetText(a, Key("OriginalType"))

\* two amendments, the first of them with a table
C26_Witness ==
    /\ call.fn = "handler"
    /\ doc = << P_NumAm7, T_Labels, P_ArticleBy, P_NumAm12, P_ArticleBy >>
    /\ Len(call.ret) = 2
    /\ call.ret[1].ENMIENDA = 7
    /\ call.ret[1].Anade = << "q" >>
    /\ call.ret[1].Original = << "text" >>
    /\ call.ret[1].GRUPO = << "S&D" >>
    /\ call.ret[2].ENMIENDA = 12
    /\ call.ret[2].Anade = << >>

-----------------------------------------------------------------------------
(* The process handlers and their temporary file *)

\* the calls of a handler that may raise
Steps == { "get", "mkstemp", "write", "import", "processing", "export",
           "remove" }

Reply(status, error) == [status |-> status, error |-> error]

\* the handler of api/process.py ("process") or the route of api/titles.py
\* ("titles") is about to read a request; has_url: the body has a url;
\* fails: the calls that raise; tmp: the state of the temporary file
InitHandler ==
    /\ IdleParse
    /\ \E route \in {"process", "titles"} : \E has_url \in BOOLEAN :
       \E fails \in SUBSET Steps :
           call = [fn |-> "handler", route |-> route, has_url |-> has_url,
                   fails |-> fails, at |-> "start", tmp |-> "none",
                   reply |-> Reply(0, "")]

\* the outer except: return 500 'unexpected' ('unhandled' in titles.py)
Unexpected(c) ==
    [c EXCEPT !.at = "returned",
              !.reply = Reply(500, IF c.route = "process" THEN "unexpected"
                                   ELSE "unhandled")]

\* os.remove(tmp_path), then return the reply; titles.py passes over an
\* exception of os.remove, process.py leaves it to the outer except
RemoveAndReturn(c, reply) ==
    IF "remove" \notin c.fails
    THEN [c EXCEPT !.tmp = "removed", !.at = "returned", !.reply = reply]
    ELSE IF c.route = "titles"
    THEN [c EXCEPT !.at = "returned", !.reply = reply]
    ELSE Unexpected(c)

\* file_url = body.get("url"); if not file_url: return 400
ReadBody ==
    /\ pc = "idle"
    /\ call.fn = "handler"
    /\ call.at = "start"
    /\ call' = IF call.has_url THEN [call EXCEPT !.at = "get"]
               ELSE [call EXCEPT !.at = "returned",
                                 !.reply = Reply(400, "missing url")]
    /\ UNCHANGED parseVars

\* r = requests.get(...); r.raise_for_status()
Download ==
    /\ pc = "idle"
    /\ call.fn = "handler"
    /\ call.at = "get"
    /\ call' = IF "get" \in call.fails THEN Unexpected(call)
               ELSE [call EXCEPT !.at = "mkstemp"]
    /\ UNCHANGED parseVars

\* fd, tmp_path = tempfile.mkstemp(suffix=".docx"); os.close(fd)
MakeTemp ==
    /\ pc = "idle"
    /\ call.fn = "handler"
    /\ call.at = "mkstemp"
    /\ call' = IF "mkstemp" \in call.fails THEN Unexpected(call)
               ELSE [call EXCEPT !.at = "write", !.tmp = "exists"]
    /\ UNCHANGED parseVars

\* with open(tmp_path, "wb") as f: f.write(r.content)
WriteTemp ==
    /\ pc = "idle"
    /\ call.fn = "handler"
    /\ call.at = "write"
    /\ call' = IF "write" \in call.fails THEN Unexpected(call)
               ELSE [call EXCEPT !.at = "import"]
    /\ UNCHANGED parseVars

\* from utils import ...
ImportUtils ==
    /\ pc = "idle"
    /\ call.fn = "handler"
    /\ call.at = "import"
    /\ call' = IF "import" \in call.fails
               THEN RemoveAndReturn(call, Reply(500, "utils import failed"))
               ELSE [call EXCEPT !.at = "processing"]
    /\ UNCHANGED parseVars

\* parsed = parse_amendments(tmp_path);
\* report_df = create_amendment_report(parsed)
Process ==
    /\ pc = "idle"
    /\ call.fn = "handler"
    /\ call.at = "processing"
    /\ call' = IF "processing" \in call.fails
               THEN RemoveAndReturn(call, Reply(500, "processing failed"))
               ELSE [call EXCEPT !.at = "export"]
    /\ UNCHANGED parseVars

\* the loop over the rows, whose exceptions are passed over, and the export
\* of the frame to XLSX
Export ==
    /\ pc = "idle"
    /\ call.fn = "handler"
    /\ call.at = "export"
    /\ call' = IF "export" \in call.fails
               THEN RemoveAndReturn(call, Reply(500, "excel export failed"))
               ELSE [call EXCEPT !.at = "cleanup"]
    /\ UNCHANGED parseVars

\* os.remove(tmp_path) and the return of the XLSX bytes
Cleanup ==
    /\ pc = "idle"
    /\ call.fn = "handler"
    /\ call.at = "cleanup"
    /\ call' = RemoveAndReturn(call, Reply(200, ""))
    /\ UNCHANGED parseVars

NextHandler ==
    \/ ReadBody
    \/ Download
    \/ MakeTemp
    \/ WriteTemp
    \/ ImportUtils
    \/ Process
    \/ Export
    \/ Cleanup

SpecHandler == InitHandler /\ [][NextHandler]_vars

\* C27: once mkstemp has made the temporary file, the file has been removed
\* when the handler returns, on every path.
C27_TempFileRemoved ==
    (call.at = "returned" /\ call.tmp # "none") => call.tmp = "removed"

-----------------------------------------------------------------------------
(* The route /api/proxy *)

\* the most queries the worker gives
MaxQueries == 2

\* the most results of one search
MaxResults == 2

Queries == { "q1", "q2" }
Urls == { "u1", "u2", "u3" }

\* what search_agri returns: entries with urls that differ from each other
ResultLists ==
    { l \in UNION { [1..n -> Urls] : n \in 0..MaxResults } :
          \A i, j \in 1..Len(l) : l[i] = l[j] => i = j }

Entry(url) == [title |-> "title of " \o url, url |-> url]

\* worker: what call_worker_classify returns; results[k]: what the k-th
\* call of search_agri returns
InitProxy ==
    /\ IdleParse
    /\ \E text_ok \in BOOLEAN :
       \E worker \in {"failed", "fallback", "other", "queries"} :
       \E queries \in UNION { [1..n -> Queries] : n \in 0..MaxQueries } :
       \E urls \in [1..Len(queries) -> ResultLists] :
           /\ worker # "queries" => queries = << >>
           /\ call = [fn |-> "proxy", text_ok |-> text_ok, worker |-> worker,
                      queries |-> queries,
                      results |-> [k \in 1..Len(queries) |->
                                      [j \in 1..Len(urls[k]) |->
                                          Entry(urls[k][j])]],
                      at |-> "start", q |-> 1, aggregated |-> << >>,
                      seen_urls |-> {}, status |-> 0, reply |-> "",
                      matches |-> << >>]

ProxyReturn(c, status, reply, matches) ==
    [c EXCEPT !.at = "returned", !.status = status, !.reply = reply,
              !.matches = matches]

\* as AddResults, without the test of seen_urls
RECURSIVE AddResults_All(_, _, _)
AddResults_All(acc, q, results) ==
    IF results = << >> THEN acc
    ELSE AddResults_All(
             [aggregated |-> Append(acc.aggregated,
                                    [source_query |-> q,
                                     title |-> Head(results).title,
                                     url |-> Head(results).url]),
              seen_urls |-> acc.seen_urls \cup {Head(results).url}],
             q, Tail(results))

\* for r in results: aggregated and seen_urls after the loop
RECURSIVE AddResults(_, _, _)
AddResults(acc, q, results) ==
    IF results = << >> THEN acc
    ELSE IF Head(results).url \in acc.seen_urls
    THEN AddResults(acc, q, Tail(results))
    ELSE AddResults(
             [aggregated |-> Append(acc.aggregated,
                                    [source_query |-> q,
                                     title |-> Head(results).title,
                                     url |-> Head(results).url]),
              seen_urls |-> acc.seen_urls \cup {Head(results).url}],
             q, Tail(results))

\* the route up to the loop over the queries
Classify ==
    /\ pc = "idle"
    /\ call.fn = "proxy"
    /\ call.at = "start"
    /\ call' =
           IF ~call.text_ok
           THEN ProxyReturn(call, 400, "missing or invalid text field", << >>)
           ELSE IF call.worker = "failed"
           THEN ProxyReturn(call, 502, "worker classification failed", << >>)
           ELSE IF call.worker = "fallback"
           THEN ProxyReturn(call, 200, "fallback message", << >>)
           ELSE IF call.worker # "queries"
           THEN ProxyReturn(call, 502, "unexpected worker response type",
                            << >>)
           ELSE IF call.queries = << >>
           THEN ProxyReturn(call, 200, "No documents found", << >>)
           ELSE [call EXCEPT !.at = "search"]
    /\ UNCHANGED parseVars

\* one turn of the loop over the queries
SearchQuery ==
    /\ pc = "idle"
    /\ call.fn = "proxy"
    /\ call.at = "search"
    /\ call.q <= Len(call.queries)
    /\ LET acc == AddResults([aggregated |-> call.aggregated,
                              seen_urls |-> call.seen_urls],
                             call.queries[call.q], call.results[call.q])
       IN  call' = [call EXCEPT !.aggregated = acc.aggregated,
                                !.seen_urls = acc.seen_urls,
                                !.q = call.q + 1]
    /\ UNCHANGED parseVars

\* the two returns after the loop
ReplyMatches ==
    /\ pc = "idle"
    /\ call.fn = "proxy"
    /\ call.at = "search"
    /\ call.q > Len(call.queries)
    /\ call' = IF call.aggregated = << >>
               THEN ProxyReturn(call, 200, "No documents found", << >>)
               ELSE ProxyReturn(call, 200, "matches", call.aggregated)
    /\ UNCHANGED parseVars

NextProxy == Classify \/ SearchQuery \/ ReplyMatches

SpecProxy == InitProxy /\ [][NextProxy]_vars

\* every result of every search, tagged with its query, in the order seen
RECURSIVE Tagged(_, _, _)
Tagged(queries, results, k) ==
    IF k > Len(queries) THEN << >>
    ELSE [j \in 1..Len(results[k]) |->
             [source_query |-> queries[k], title |-> results[k][j].title,
              url |-> results[k][j].url]]
         \o Tagged(queries, results, k + 1)

\* the entries of seen whose url no earlier entry has, from index p on
RECURSIVE FirstSeen(_, _)
FirstSeen(seen, p) ==
    IF p > Len(seen) THEN << >>
    ELSE (IF \E e \in 1..(p - 1) : seen[e].url = seen[p].url THEN << >>
          ELSE << seen[p] >>)
         \o FirstSeen(seen, p + 1)

\* C28: for any queries of the worker and any search results, the matches
\* hold each URL once, in the order first seen across the queries, each
\* with the first query that returned it; the reply is 'matches' when the
\* list is not empty, and 'No documents found' with an empty list when it
\* is.
C28_ProxyAggregation ==
    (call.at = "returned" /\ call.text_ok /\ call.worker = "queries") =>
        /\ call.status = 200
        /\ call.matches = FirstSeen(Tagged(call.queries, call.results, 1), 1)
        /\ \A i, j \in 1..Len(call.matches) :
               call.matches[i].url = call.matches[j].url => i = j
        /\ call.reply = "matches" <=> call.matches # << >>
        /\ call.matches = << >> => call.reply = "No documents found"

\* the second query returns a URL the first has returned, and a new one
C28_Witness ==
    /\ call.at = "returned"
    /\ call.queries = << "q1", "q2" >>
    /\ call.results = << << Entry("u1"), Entry("u2") >>,
                         << Entry("u2"), Entry("u3") >> >>
    /\ call.reply = "matches"
    /\ Len(call.matches) = 3
    /\ call.matches[2].source_query = "q1"
    /\ call.matches[3] = [source_query |-> "q2", title |-> "title of u3",
                          url |-> "u3"]

-----------------------------------------------------------------------------
(* The current amendment of the walk *)

\* the boundaries among the blocks consumed so far
SeenBoundaries == { i \in Boundaries(doc) : i <= idx }

\* the most recent of them
LastSeen == CHOOSE i \in SeenBoundaries : \A j \in SeenBoundaries : j <= i

\* C29: at every step of the walk, collecting_header is true if and only if
\* current_amendment is None; when it is not None, current_amendment is the
\* accumulator the amendments map holds under the number of the most recent
\* boundary (the model names an accumulator by its key), and that
\* accumulator holds what was collected since that boundary.
C29_CurrentIsLatest ==
    (openable /\ pc = "walk") =>
        /\ collecting_header <=> current_amendment = None
        /\ current_amendment = None <=> SeenBoundaries = {}
        /\ current_amendment # None =>
               /\ current_amendment = BoundaryNum(LastSeen)
               /\ current_amendment \in DOMAIN amendments
               /\ amendments[current_amendment][Key("raw_content")].val =
                      ParagraphTexts(Sub(doc, LastSeen + 1, idx))

\* a second amendment is current and has collected a paragraph
C29_Witness ==
    /\ pc = "walk"
    /\ idx = 4
    /\ doc[1] = P_NumAm12 /\ doc[2] = P_Article /\ doc[3] = P_NumAm7
    /\ doc[4] = P_By
    /\ current_amendment = 7
    /\ amendments[7][Key("raw_content")].val = << Strip(P_By.text) >>

====
